---- MODULE Spec2Model ----
(***************************************************************************)
(* A model of the SCP node of consensus/scp: the Node wrapper of           *)
(* src/consensus/scp/src/node.rs (current slot, externalized history,      *)
(* message de-duplication), the predicates of                              *)
(* src/consensus/scp/src/predicates.rs, and the Slot state machine, the    *)
(* quorum-set searches and the message accessors those two files call.     *)
(* The Slot, QuorumSet and Msg sources are not part of the source tree     *)
(* at hand; their definitions follow the specification document            *)
(* (sections 3, 4.1, 4.3, 4.4) and the unit tests of node.rs and           *)
(* predicates.rs that exercise them.                                       *)
(***************************************************************************)
EXTENDS Integers, Sequences, FiniteSets, TLC

(***************************************************************************)
(* Bounds of the model.                                                    *)
(***************************************************************************)
\* Values are 0..MaxValue; value 0 is the one validity_fn rejects.
MaxValue == 2
\* Ballot counters raised by timeouts stop at MaxCounter.
MaxCounter == 2
\* Slot indices of the two-node network run up to MaxSlot.
MaxSlot == 1
\* Slot indices of the single-node history model run up to MaxHistSlot.
MaxHistSlot == 12
\* Number of reset_slot_index calls in one run of the history model.
MaxResets == 1
\* The history model varies its inputs (client values, timers, the value the
\* peer externalizes, late messages) at the slot indices up to MaxForkSlot;
\* at the later indices the peer drives the slot on one value.
MaxForkSlot == 1
\* Values of the two-node trace scenario are 1..MaxTraceValue.
MaxTraceValue == 4
\* Slot indices of the single-node input model run up to MaxReplaySlot.
MaxReplaySlot == 2
\* The values a client submits to a node whose peer is silent are
\* 0 .. MaxSilentValue.
MaxSilentValue == 4
\* The timebase, in ms, an owner sets a node's scp_timebase to in place of
\* the default.
OwnTimebaseMs == 250
\* The counters of the ranges handed to get_highest_ballot are 0 .. MaxRange.
MaxRange == 2
\* filter_to_max_values is handed at most MaxResults results.
MaxResults == 3

(***************************************************************************)
(* Program constants.                                                      *)
(***************************************************************************)
MAX_EXTERNALIZED_SLOTS == 10
LAST_SEEN_HISTORY_SIZE == 1000
\* The INFINITY counter of an open-ended range: u32::MAX in the program.
\* TLC's integers are 32-bit signed, so the model takes the greatest of them;
\* only its being above every counter a run reaches is used.
INFINITY == 2147483647
\* Node::new sets scp_timebase to 1000 ms.
DEFAULT_TIMEBASE_MS == 1000

Values == 0 .. MaxValue

\* Option<T> is a set with at most one element.
None == {}
Some(x) == {x}
Unwrap(o) == CHOOSE x \in o : TRUE

Max(a, b) == IF a >= b THEN a ELSE b
Min(a, b) == IF a <= b THEN a ELSE b
SetMax(S) == CHOOSE x \in S : \A y \in S : y <= x
SetMin(S) == CHOOSE x \in S : \A y \in S : x <= y

(***************************************************************************)
(* Values, value lists and ballots.                                        *)
(***************************************************************************)
\* The application's validity_fn: Ok for every value but 0.
validity_fn(v) == v # 0

RECURSIVE SetToSeq(_)
\* BTreeSet<V>::into_iter().collect(): the elements in increasing order.
SetToSeq(S) ==
    IF S = {} THEN <<>>
    ELSE LET m == SetMin(S) IN <<m>> \o SetToSeq(S \ {m})

SeqToSet(s) == {s[i] : i \in 1 .. Len(s)}

\* trivial_combine_fn: the values as they are.
combine_fn(S) == S

RECURSIVE SeqLess(_, _)
\* Vec<V> ordering: lexicographic.
SeqLess(a, b) ==
    IF b = <<>> THEN FALSE
    ELSE IF a = <<>> THEN TRUE
    ELSE IF Head(a) # Head(b) THEN Head(a) < Head(b)
    ELSE SeqLess(Tail(a), Tail(b))

Ballot(n, x) == [N |-> n, X |-> x]
ZeroBallot == Ballot(0, <<>>)

\* Ballot ordering: by N first, then by X.
BallotLess(a, b) == a.N < b.N \/ (a.N = b.N /\ SeqLess(a.X, b.X))
BallotLeq(a, b) == a = b \/ BallotLess(a, b)
MaxBallot(S) == CHOOSE b \in S : \A c \in S : BallotLeq(c, b)

(***************************************************************************)
(* Quorum sets.  A member is a node or an inner quorum set.                *)
(***************************************************************************)
NodeMember(n) == [kind |-> "Node", id |-> n]
InnerSet(q) == [kind |-> "InnerSet", set |-> q]
QuorumSet(t, ms) == [threshold |-> t, members |-> ms]
\* QuorumSet::new_with_node_ids(threshold, node_ids)
new_with_node_ids(t, ids) ==
    QuorumSet(t, [i \in 1 .. Len(ids) |-> NodeMember(ids[i])])

(***************************************************************************)
(* Messages.                                                               *)
(***************************************************************************)
NominateTopic(x, y) == [t |-> "Nominate", X |-> x, Y |-> y]
PrepareTopic(b, p, pp, cn, hn) ==
    [t |-> "Prepare", B |-> b, P |-> p, PP |-> pp, CN |-> cn, HN |-> hn]
NominatePrepareTopic(x, y, b, p, pp, cn, hn) ==
    [t |-> "NominatePrepare", X |-> x, Y |-> y,
     B |-> b, P |-> p, PP |-> pp, CN |-> cn, HN |-> hn]
CommitTopic(b, pn, cn, hn) ==
    [t |-> "Commit", B |-> b, PN |-> pn, CN |-> cn, HN |-> hn]
ExternalizeTopic(c, hn) == [t |-> "Externalize", C |-> c, HN |-> hn]

NewMsg(sender, qs, slot_index, topic) ==
    [sender_id |-> sender, sender_quorum_set |-> qs,
     slot_index |-> slot_index, topic |-> topic]

\* Phase order of the topics: Nominate < NominatePrepare < Prepare < Commit
\* < Externalize.
TopicRank(t) ==
    CASE t = "Nominate" -> 1
      [] t = "NominatePrepare" -> 2
      [] t = "Prepare" -> 3
      [] t = "Commit" -> 4
      [] t = "Externalize" -> 5

(***************************************************************************)
(* Msg accessors: what the sender of a message is stating.                 *)
(***************************************************************************)
HasNominate(topic) == topic.t \in {"Nominate", "NominatePrepare"}
HasPrepare(topic) == topic.t \in {"NominatePrepare", "Prepare"}

NonZero(S) == {b \in S : b.N # 0}

\* Option<set<V>>: the union of X and Y of a Nominate or NominatePrepare.
votes_or_accepts_nominated(msg) ==
    IF HasNominate(msg.topic) THEN Some(msg.topic.X \cup msg.topic.Y)
    ELSE None

\* Option<set<V>>: Y only.
accepts_nominated(msg) ==
    IF HasNominate(msg.topic) THEN Some(msg.topic.Y) ELSE None

\* set<Ballot>: the ballots the sender has accepted as prepared: P and PP
\* of a Prepare, (PN, B.X) of a Commit, (INFINITY, C.X) of an Externalize.
accepts_prepared(msg) ==
    LET tp == msg.topic IN
    CASE HasPrepare(tp) -> NonZero(tp.P \cup tp.PP)
      [] tp.t = "Commit" -> NonZero({Ballot(tp.PN, tp.B.X)})
      [] tp.t = "Externalize" -> {Ballot(INFINITY, tp.C.X)}
      [] OTHER -> {}

\* set<Ballot>: B, P and PP with a non-zero counter, and the ballots at CN
\* and HN on B.X of a Prepare or Commit.
votes_or_accepts_prepared(msg) ==
    LET tp == msg.topic IN
    CASE HasPrepare(tp) ->
           NonZero({tp.B, Ballot(tp.CN, tp.B.X), Ballot(tp.HN, tp.B.X)}
                   \cup tp.P \cup tp.PP)
      [] tp.t = "Commit" ->
           NonZero({tp.B, Ballot(tp.PN, tp.B.X), Ballot(tp.CN, tp.B.X),
                    Ballot(tp.HN, tp.B.X)})
      [] tp.t = "Externalize" ->
           NonZero({tp.C, Ballot(tp.HN, tp.C.X), Ballot(INFINITY, tp.C.X)})
      [] OTHER -> {}

\* The intersection of the window (min, max) with the range (lo, hi);
\* None when they do not meet.
Intersect(min, max, lo, hi) ==
    IF Max(min, lo) <= Min(max, hi)
    THEN Some(<<Max(min, lo), Min(max, hi)>>)
    ELSE None

\* Option<(min', max')>: the window met with the sender's accepted-commit
\* range for ballots with X = values.
accepts_commits(msg, values, min, max) ==
    LET tp == msg.topic IN
    CASE tp.t = "Commit" /\ tp.B.X = values ->
           Intersect(min, max, tp.CN, tp.HN)
      [] tp.t = "Externalize" /\ tp.C.X = values ->
           Intersect(min, max, tp.C.N, INFINITY)
      [] OTHER -> None

\* As accepts_commits, and the voted range (CN..HN) of a Prepare.
votes_or_accepts_commits(msg, values, min, max) ==
    LET tp == msg.topic IN
    IF HasPrepare(tp) /\ tp.B.X = values /\ tp.CN # 0
    THEN Intersect(min, max, tp.CN, tp.HN)
    ELSE accepts_commits(msg, values, min, max)

\* The ballot counter a message is at.
MsgCounter(msg) ==
    LET tp == msg.topic IN
    CASE HasPrepare(tp) -> tp.B.N
      [] tp.t = "Commit" -> tp.B.N
      [] tp.t = "Externalize" -> INFINITY
      [] OTHER -> 0

(***************************************************************************)
(* Predicates (predicates.rs).  A predicate is a record: its state and     *)
(* the name of its test function.                                          *)
(***************************************************************************)
ValueSetPredicate(values, fn) ==
    [kind |-> "ValueSet", values |-> values, test_fn |-> fn]
BallotSetPredicate(ballots, fn) ==
    [kind |-> "BallotSet", ballots |-> ballots, test_fn |-> fn]
\* ballot_ranges maps a value list to a (min, max) range of counters.
BallotRangePredicate(ballot_ranges, fn) ==
    [kind |-> "BallotRange", ballot_ranges |-> ballot_ranges, test_fn |-> fn]
MinMaxPredicate(min, max, values, fn) ==
    [kind |-> "MinMax", min |-> min, max |-> max, values |-> values,
     test_fn |-> fn]
FuncPredicate(fn, arg) == [kind |-> "Func", test_fn |-> fn, arg |-> arg]

\* The test functions the slot passes to its set predicates: the current
\* candidates met with what the message states.  test_fn is any closure of
\* the caller: "stated_by_sender" is one that returns what the message
\* states whatever the candidates are.
ValueTestFn(fn, msg, values) ==
    LET got == IF fn = "votes_or_accepts_nominated" \/ fn = "stated_by_sender"
               THEN votes_or_accepts_nominated(msg)
               ELSE accepts_nominated(msg)
    IN IF got = None THEN {}
       ELSE IF fn = "stated_by_sender" THEN Unwrap(got)
       ELSE values \cap Unwrap(got)

BallotTestFn(fn, msg, ballots) ==
    IF fn = "stated_by_sender" THEN votes_or_accepts_prepared(msg)
    ELSE IF fn = "votes_or_accepts_prepared"
    THEN ballots \cap votes_or_accepts_prepared(msg)
    ELSE ballots \cap accepts_prepared(msg)

\* The range of counters the sender has accepted as committed, by value
\* list: a map with one entry for a Commit or an Externalize, the empty map
\* otherwise.
StatedRanges(msg) ==
    LET tp == msg.topic IN
    CASE tp.t = "Commit" -> [x \in {tp.B.X} |-> <<tp.CN, tp.HN>>]
      [] tp.t = "Externalize" -> [x \in {tp.C.X} |-> <<tp.C.N, INFINITY>>]
      [] OTHER -> [x \in {} |-> <<0, 0>>]

\* The range the map has for the value list x, met with the sender's
\* accepted-commit range for x.
MetRange(msg, ballot_ranges, x) ==
    accepts_commits(msg, x, ballot_ranges[x][1], ballot_ranges[x][2])

\* The entries of the map whose range meets the sender's accepted-commit
\* range for that value list, each narrowed to where they meet.
BallotRangeTestFn(fn, msg, ballot_ranges) ==
    IF fn = "stated_by_sender" THEN StatedRanges(msg)
    ELSE [x \in {y \in DOMAIN ballot_ranges :
                   MetRange(msg, ballot_ranges, y) # None} |->
            Unwrap(MetRange(msg, ballot_ranges, x))]

MinMaxTestFn(fn, msg, values, min, max) ==
    IF fn = "votes_or_accepts_commits"
    THEN votes_or_accepts_commits(msg, values, min, max)
    ELSE accepts_commits(msg, values, min, max)

\* FuncPredicate's stateless test: the message is at a counter above arg.
FuncTestFn(fn, msg, arg) == MsgCounter(msg) > arg

\* A faulty test that passes the message without narrowing the values.
ValueSetTest_unnarrowed(pred, msg) ==
    IF ValueTestFn(pred.test_fn, msg, pred.values) = {} THEN None
    ELSE Some(pred)

\* ValueSetPredicate::test
ValueSetTest(pred, msg) ==
    IF pred.values = {} THEN None
    ELSE LET next_values == ValueTestFn(pred.test_fn, msg, pred.values) IN
         IF next_values = {} THEN None
         ELSE Some([pred EXCEPT !.values = next_values])

\* A faulty test that passes the message without narrowing the ballots.
BallotSetTest_unnarrowed(pred, msg) ==
    IF BallotTestFn(pred.test_fn, msg, pred.ballots) = {} THEN None
    ELSE Some(pred)

\* BallotSetPredicate::test
BallotSetTest(pred, msg) ==
    IF pred.ballots = {} THEN None
    ELSE LET nextBallots == BallotTestFn(pred.test_fn, msg, pred.ballots) IN
         IF nextBallots = {} THEN None
         ELSE Some([pred EXCEPT !.ballots = nextBallots])

\* The end of BallotRangePredicate::test: None when test_fn left no range,
\* else the predicate with the ranges it left.
WithRanges(pred, ballot_ranges) ==
    IF DOMAIN ballot_ranges = {} THEN None
    ELSE Some([pred EXCEPT !.ballot_ranges = ballot_ranges])

\* A faulty test that does not look at the ranges it holds.
BallotRangeTest_unguarded(pred, msg) ==
    WithRanges(pred, BallotRangeTestFn(pred.test_fn, msg, pred.ballot_ranges))

\* BallotRangePredicate::test
BallotRangeTest(pred, msg) ==
    IF DOMAIN pred.ballot_ranges = {} THEN None
    ELSE WithRanges(pred, BallotRangeTestFn(pred.test_fn, msg,
                                            pred.ballot_ranges))

\* A faulty test that passes the message without narrowing the window.
MinMaxTest_unnarrowed(pred, msg) ==
    IF pred.min > pred.max THEN None
    ELSE IF MinMaxTestFn(pred.test_fn, msg, pred.values,
                         pred.min, pred.max) = None THEN None
    ELSE Some(pred)

\* MinMaxPredicate::test
MinMaxTest(pred, msg) ==
    IF pred.min > pred.max THEN None
    ELSE LET r == MinMaxTestFn(pred.test_fn, msg, pred.values,
                               pred.min, pred.max) IN
         IF r = None THEN None
         ELSE Some([pred EXCEPT !.min = Unwrap(r)[1], !.max = Unwrap(r)[2]])

\* FuncPredicate::test
FuncTest(pred, msg) ==
    IF FuncTestFn(pred.test_fn, msg, pred.arg) THEN Some(pred) ELSE None

\* Predicate::test, by the predicate's type.
PredTest(pred, msg) ==
    CASE pred.kind = "ValueSet" -> ValueSetTest(pred, msg)
      [] pred.kind = "BallotSet" -> BallotSetTest(pred, msg)
      [] pred.kind = "MinMax" -> MinMaxTest(pred, msg)
      [] pred.kind = "Func" -> FuncTest(pred, msg)

\* Predicate::result
PredResult(pred) ==
    CASE pred.kind = "ValueSet" -> pred.values
      [] pred.kind = "BallotSet" -> pred.ballots
      [] pred.kind = "MinMax" -> <<pred.min, pred.max>>
      [] pred.kind = "Func" -> <<>>

(***************************************************************************)
(* Quorum-set searches.  msgs maps each peer heard from to its latest      *)
(* message.  Both return <<node set, predicate>>; an empty node set means  *)
(* that nothing was found.                                                 *)
(***************************************************************************)
RECURSIVE findQuorumHelper(_, _, _, _, _)
\* Depth first, members in declaration order: take members[1] when its
\* message passes the predicate and its own quorum set is satisfied too,
\* else skip it.
findQuorumHelper(threshold, members, msgs, pred, nodes_so_far) ==
    IF threshold = 0 THEN <<nodes_so_far, pred>>
    ELSE IF threshold > Len(members) THEN <<{}, pred>>
    ELSE
      LET m == members[1]
          rest == Tail(members)
          skip == findQuorumHelper(threshold, rest, msgs, pred, nodes_so_far)
      IN
      IF m.kind = "Node" THEN
        IF m.id \in nodes_so_far
        THEN findQuorumHelper(threshold - 1, rest, msgs, pred, nodes_so_far)
        ELSE IF m.id \notin DOMAIN msgs THEN skip
        ELSE
          LET msg == msgs[m.id]
              next == PredTest(pred, msg)
          IN
          IF next = None THEN skip
          ELSE
            LET r2 == findQuorumHelper(msg.sender_quorum_set.threshold,
                                       msg.sender_quorum_set.members, msgs,
                                       Unwrap(next),
                                       nodes_so_far \cup {m.id})
            IN
            IF r2[1] = {} THEN skip
            ELSE
              LET r3 == findQuorumHelper(threshold - 1, rest, msgs,
                                         r2[2], r2[1])
              IN IF r3[1] = {} THEN skip ELSE r3
      ELSE
        LET r2 == findQuorumHelper(m.set.threshold, m.set.members, msgs,
                                   pred, nodes_so_far)
        IN
        IF r2[1] = {} THEN skip
        ELSE
          LET r3 == findQuorumHelper(threshold - 1, rest, msgs, r2[2], r2[1])
          IN IF r3[1] = {} THEN skip ELSE r3

\* A faulty search that takes the local node alone for a quorum.
findQuorumLocalOnly(qs, local_id, msgs, pred) == <<{local_id}, pred>>

\* QuorumSet::findQuorum: a quorum containing the local node all of whose
\* peers' latest messages pass the predicate.
findQuorum(qs, local_id, msgs, pred) ==
    findQuorumHelper(qs.threshold, qs.members, msgs, pred, {local_id})

RECURSIVE findBlockingSetHelper(_, _, _, _, _)
\* needed members still have to block.
findBlockingSetHelper(needed, members, msgs, pred, nodes_so_far) ==
    IF needed = 0 THEN <<nodes_so_far, pred>>
    ELSE IF needed > Len(members) THEN <<{}, pred>>
    ELSE
      LET m == members[1]
          rest == Tail(members)
          skip == findBlockingSetHelper(needed, rest, msgs, pred,
                                        nodes_so_far)
      IN
      IF m.kind = "Node" THEN
        IF m.id \notin DOMAIN msgs THEN skip
        ELSE
          LET next == PredTest(pred, msgs[m.id]) IN
          IF next = None THEN skip
          ELSE
            LET r2 == findBlockingSetHelper(needed - 1, rest, msgs,
                                            Unwrap(next),
                                            nodes_so_far \cup {m.id})
            IN IF r2[1] = {} THEN skip ELSE r2
      ELSE
        LET r2 == findBlockingSetHelper(
                      Len(m.set.members) - m.set.threshold + 1,
                      m.set.members, msgs, pred, nodes_so_far)
        IN
        IF r2[1] = {} THEN skip
        ELSE
          LET r3 == findBlockingSetHelper(needed - 1, rest, msgs,
                                          r2[2], r2[1])
          IN IF r3[1] = {} THEN skip ELSE r3

\* QuorumSet::findBlockingSet: peers whose removal leaves the threshold out
\* of reach, all passing the predicate.
findBlockingSet(qs, msgs, pred) ==
    findBlockingSetHelper(Len(qs.members) - qs.threshold + 1, qs.members,
                          msgs, pred, {})

(***************************************************************************)
(* The Slot state machine: one instance of consensus at one index.         *)
(***************************************************************************)
\* Slot::new: born in the Nominate phase, nothing heard, nothing emitted,
\* timers based on the default 1 s.
NewSlot(id, qs, index) ==
    [slot_index |-> index, node_id |-> id, quorum_set |-> qs,
     phase |-> "Nominate",
     M |-> <<>>,
     X |-> {}, Y |-> {}, Z |-> {},
     B |-> ZeroBallot, P |-> None, PP |-> None,
     CN |-> 0, HN |-> 0, PN |-> 0,
     last_sent_msg |-> None,
     timebase |-> DEFAULT_TIMEBASE_MS]

\* Externalize > Commit > Prepare/NominatePrepare > Nominate.
IngestRank(t) ==
    CASE t = "Nominate" -> 1
      [] t \in {"NominatePrepare", "Prepare"} -> 2
      [] t = "Commit" -> 3
      [] t = "Externalize" -> 4

\* Within one phase: componentwise non-decreasing on (B.N, HN, CN, PN) and
\* Y a superset of the old Y.
Monotone(new, old) ==
    CASE new.t = "Nominate" -> old.Y \subseteq new.Y
      [] HasPrepare(new) ->
           /\ TopicRank(new.t) >= TopicRank(old.t)
           /\ new.B.N >= old.B.N /\ new.HN >= old.HN /\ new.CN >= old.CN
           /\ (HasNominate(new) /\ HasNominate(old) => old.Y \subseteq new.Y)
      [] new.t = "Commit" ->
           /\ new.B.N >= old.B.N /\ new.HN >= old.HN /\ new.CN >= old.CN
           /\ new.PN >= old.PN
      [] new.t = "Externalize" -> new.C.N >= old.C.N /\ new.HN >= old.HN

\* Whether msg is strictly newer than the message stored for its sender.
IsNewer(msg, stored) ==
    \/ IngestRank(msg.topic.t) > IngestRank(stored.topic.t)
    \/ /\ IngestRank(msg.topic.t) = IngestRank(stored.topic.t)
       /\ msg # stored
       /\ Monotone(msg.topic, stored.topic)

\* A function with one more (or one replaced) entry.
Insert(f, k, v) == [x \in DOMAIN f \cup {k} |-> IF x = k THEN v ELSE f[x]]

\* The node set and the result of a search, or nothing when it found none.
Found(r) == IF r[1] = {} THEN {} ELSE {PredResult(r[2])}
FoundSet(r) == IF r[1] = {} THEN {} ELSE PredResult(r[2])

\* The values the peers heard from vote for or accept.
PeerNominated(s) ==
    UNION {IF votes_or_accepts_nominated(s.M[p]) = None THEN {}
           ELSE Unwrap(votes_or_accepts_nominated(s.M[p])) : p \in DOMAIN s.M}

\* The values that may be accepted next: voted for here or by a peer, valid,
\* and not accepted yet.
NominateCandidates(s) ==
    {v \in (s.X \cup PeerNominated(s)) \ s.Y : validity_fn(v)}

\* The slot with Y1 accepted as nominated: what is accepted is no longer
\* merely voted for.
WithAccepted(s, Y1) == [s EXCEPT !.X = s.X \ Y1, !.Y = Y1]

\* A candidate value is accepted when a quorum votes for or accepts it or a
\* blocking set accepts it.
accept_nominated(s, cand) ==
    WithAccepted(s,
        s.Y
        \cup FoundSet(findQuorum(s.quorum_set, s.node_id, s.M,
                 ValueSetPredicate(cand, "votes_or_accepts_nominated")))
        \cup FoundSet(findBlockingSet(s.quorum_set, s.M,
                 ValueSetPredicate(cand, "accepts_nominated"))))

\* The slot with Z1 confirmed nominated: the first confirmed values form
\* ballot 1 and open the ballot protocol.
WithConfirmed(s, Z1) ==
    IF Z1 # {} /\ s.phase = "Nominate"
    THEN [s EXCEPT !.Z = Z1, !.phase = "NominatePrepare",
                   !.B = Ballot(1, SetToSeq(combine_fn(Z1)))]
    ELSE [s EXCEPT !.Z = Z1]

\* An accepted value is confirmed when a quorum accepts it.
confirm_nominated(s) ==
    WithConfirmed(s,
        s.Z \cup FoundSet(findQuorum(s.quorum_set, s.node_id, s.M,
                     ValueSetPredicate(s.Y, "accepts_nominated"))))

\* Nomination.
do_nominate_phase(s) ==
    IF s.phase \notin {"Nominate", "NominatePrepare"} THEN s
    ELSE confirm_nominated(accept_nominated(s, NominateCandidates(s)))

\* The ballots the peers heard from vote for or accept as prepared.
PeerPrepared(s) == UNION {votes_or_accepts_prepared(s.M[p]) : p \in DOMAIN s.M}

\* The ballots accepted as prepared: by a quorum voting for or accepting
\* them, or by a blocking set accepting them.
AcceptedPrepared(s, cand) ==
    FoundSet(findQuorum(s.quorum_set, s.node_id, s.M,
                 BallotSetPredicate(cand, "votes_or_accepts_prepared")))
    \cup
    FoundSet(findBlockingSet(s.quorum_set, s.M,
                 BallotSetPredicate(cand, "accepts_prepared")))

\* The order of (min, max) tuples: by min first, then by max.
PairLeq(a, b) == a[1] < b[1] \/ (a[1] = b[1] /\ a[2] <= b[2])

\* A faulty choice: the pair with the greatest max, then the greatest min.
get_highest_ballot_by_max(results) ==
    IF results = {} THEN None
    ELSE Some(CHOOSE r \in results : \A q \in results :
                  PairLeq(<<q[2], q[1]>>, <<r[2], r[1]>>))

\* MinMaxPredicate::get_highest_ballot: the greatest (min, max) pair, pairs
\* compared as tuples.
get_highest_ballot(results) ==
    IF results = {} THEN None
    ELSE Some(CHOOSE r \in results : \A q \in results : PairLeq(q, r))

\* The comparison of filter_to_max_values: by the number of nodes, and for
\* equally many nodes by the value sets, BTreeSets compared element by
\* element in increasing order.
ResultGreater(a, b) ==
    IF Cardinality(a[1]) # Cardinality(b[1])
    THEN Cardinality(a[1]) > Cardinality(b[1])
    ELSE SeqLess(SetToSeq(b[2]), SetToSeq(a[2]))

RECURSIVE MaxBy(_, _)
\* Iterator::max_by: the greatest element, the last of them when several
\* compare equal.
MaxBy(best, rest) ==
    IF rest = <<>> THEN best
    ELSE MaxBy(IF ResultGreater(best, Head(rest)) THEN best ELSE Head(rest),
               Tail(rest))

\* A faulty choice: the result with the most values, whatever its nodes.
filter_to_max_values_by_len(results) ==
    IF results = <<>> THEN None
    ELSE Some(CHOOSE v \in {results[i][2] : i \in 1 .. Len(results)} :
                \A j \in 1 .. Len(results) :
                    \/ Cardinality(results[j][2]) < Cardinality(v)
                    \/ /\ Cardinality(results[j][2]) = Cardinality(v)
                       /\ ~SeqLess(SetToSeq(v), SetToSeq(results[j][2])))

\* ValueSetPredicate::filter_to_max_values, results a list of
\* <<node set, value set>>.
filter_to_max_values(results) ==
    IF results = <<>> THEN None
    ELSE Some(MaxBy(Head(results), Tail(results))[2])

\* The value lists the peers heard from state a commit for.
PeerCommitValues(s) ==
    {s.M[p].topic.B.X : p \in {q \in DOMAIN s.M : s.M[q].topic.t = "Commit"}}
    \cup
    {s.M[p].topic.C.X :
       p \in {q \in DOMAIN s.M : s.M[q].topic.t = "Externalize"}}

\* Accepted commits, as a set of <<values, <<min, max>>>>: a quorum votes for
\* or accepts the commit of the local window on B.X, or a blocking set
\* accepts a commit.
AcceptedCommits(s) ==
    {<<s.B.X, w>> : w \in
        IF s.CN = 0 THEN {}
        ELSE Found(findQuorum(s.quorum_set, s.node_id, s.M,
                       MinMaxPredicate(s.CN, s.HN, s.B.X,
                                       "votes_or_accepts_commits")))}
    \cup
    UNION {{<<x, w>> : w \in
              Found(findBlockingSet(s.quorum_set, s.M,
                        MinMaxPredicate(1, INFINITY, x, "accepts_commits")))}
           : x \in PeerCommitValues(s)}

\* The greatest value list of the accepted commits with window best.
GreatestValues(vals) ==
    CHOOSE x \in vals : \A y \in vals : y = x \/ SeqLess(y, x)

CommitAt(acc, best) ==
    <<GreatestValues({a[1] : a \in {c \in acc : c[2] = best}}), best>>

\* The accepted commit to adopt: the one with the highest window, and among
\* equal windows the greatest value list.
ChooseCommit(acc) ==
    CommitAt(acc, Unwrap(get_highest_ballot({a[2] : a \in acc})))

\* The highest counter accepted as prepared for value list x.
PreparedCounter(s, x) ==
    SetMax({0} \cup {b.N : b \in {c \in s.P \cup s.PP : c.X = x}})

\* The highest ballot of a set, if any.
HighestBallot(S) == IF S = {} THEN None ELSE Some(MaxBallot(S))

\* The ballots of S with a value list other than p's.
Incompatible(S, p) ==
    IF p = None THEN {} ELSE {b \in S : b.X # Unwrap(p).X}

\* P is the highest accepted-prepared ballot, PP the highest one with a
\* value list incompatible with P's.
WithPrepared(s, accepted, P1) ==
    [s EXCEPT !.P = P1, !.PP = HighestBallot(Incompatible(accepted, P1))]

WithAcceptedPrepared(s, accepted) ==
    WithPrepared(s, accepted, HighestBallot(accepted))

accept_prepared(s) ==
    WithAcceptedPrepared(s,
        AcceptedPrepared(s, NonZero({s.B} \cup PeerPrepared(s)))
        \cup s.P \cup s.PP)

\* A higher accepted-prepared ballot with a different value list: B takes
\* its value list, unless a commit was voted on B.X.
switch_ballot(s) ==
    IF /\ s.P # None /\ s.CN = 0
       /\ Unwrap(s.P).X # s.B.X /\ BallotLess(s.B, Unwrap(s.P))
    THEN [s EXCEPT !.B = Ballot(Max(s.B.N, Unwrap(s.P).N), Unwrap(s.P).X)]
    ELSE s

\* A blocking set at a higher counter: B.N goes up by one.
catch_up(s) ==
    IF findBlockingSet(s.quorum_set, s.M,
                       FuncPredicate("counter_above", s.B.N))[1] # {}
    THEN [s EXCEPT !.B = Ballot(s.B.N + 1, s.B.X)]
    ELSE s

\* A faulty confirmation that takes the slot back to NominatePrepare while
\* B is not confirmed prepared.
confirm_prepared_else_reopen(s) ==
    IF s.B \in FoundSet(findQuorum(s.quorum_set, s.node_id, s.M,
                   BallotSetPredicate(s.P \cup s.PP, "accepts_prepared")))
    THEN [s EXCEPT !.phase = "Prepare", !.HN = s.B.N,
                   !.CN = IF s.CN = 0 THEN s.B.N ELSE s.CN]
    ELSE [s EXCEPT !.phase = "NominatePrepare"]

\* B is confirmed prepared when a quorum accepts it as prepared: the commit
\* of B is voted for.
confirm_prepared(s) ==
    IF s.B \in FoundSet(findQuorum(s.quorum_set, s.node_id, s.M,
                   BallotSetPredicate(s.P \cup s.PP, "accepts_prepared")))
    THEN [s EXCEPT !.phase = "Prepare", !.HN = s.B.N,
                   !.CN = IF s.CN = 0 THEN s.B.N ELSE s.CN]
    ELSE s

\* The slot that adopts the accepted commit c = <<values, <<min, max>>>>.
Adopt(s, c) ==
    [s EXCEPT !.phase = "Commit",
              !.B = Ballot(Max(s.B.N, 1), c[1]),
              !.PN = PreparedCounter(s, c[1]),
              !.CN = c[2][1], !.HN = c[2][2]]

WithCommits(s, acc) == IF acc = {} THEN s ELSE Adopt(s, ChooseCommit(acc))

accept_commit(s) == WithCommits(s, AcceptedCommits(s))

\* Prepare.
do_prepare_phase(s) ==
    IF s.phase \notin {"NominatePrepare", "Prepare"} THEN s
    ELSE accept_commit(confirm_prepared(catch_up(switch_ballot(
             accept_prepared(s)))))

\* PN follows the highest counter accepted as prepared on B.X.
commit_prepared(s) ==
    [s EXCEPT !.PN = SetMax({s.PN} \cup
        {b.N : b \in AcceptedPrepared(s,
                   {c \in NonZero({s.B} \cup PeerPrepared(s)) :
                       c.X = s.B.X})})]

\* The slot whose commit is confirmed on the window in confirmed, if any.
WithConfirmedCommit(s, confirmed) ==
    IF confirmed = {} THEN s
    ELSE [s EXCEPT !.phase = "Externalize",
                   !.CN = Unwrap(confirmed)[1], !.HN = Unwrap(confirmed)[2]]

\* The commit is confirmed when a quorum accepts it.
confirm_commit(s) ==
    WithConfirmedCommit(s,
        Found(findQuorum(s.quorum_set, s.node_id, s.M,
                  MinMaxPredicate(s.CN, s.HN, s.B.X, "accepts_commits"))))

\* Commit.
do_commit_phase(s) ==
    IF s.phase # "Commit" THEN s
    ELSE confirm_commit(commit_prepared(s))

\* A faulty externalize step that leaves HN where the commit left it.
do_externalize_phase_keep_HN(s) == s

\* Externalize: HN is raised to the highest counter at which a quorum
\* accepts the committed value list as prepared.
do_externalize_phase(s) ==
    IF s.phase # "Externalize" THEN s
    ELSE [s EXCEPT !.HN = SetMax({s.HN} \cup
            {b.N : b \in FoundSet(findQuorum(s.quorum_set, s.node_id, s.M,
                BallotSetPredicate(
                    {c \in UNION {accepts_prepared(s.M[p]) : p \in DOMAIN s.M} :
                        c.X = s.B.X},
                    "accepts_prepared")))})]

\* Every federated-voting rule, phase by phase: a phase entered is
\* evaluated in the same pass.
do_ballot_protocol(s) ==
    do_externalize_phase(do_commit_phase(do_prepare_phase(s)))

Evaluate(s) == do_ballot_protocol(do_nominate_phase(s))

\* The message that states the slot's state; None while there is nothing
\* to state.
BuildMsg(s) ==
    CASE s.phase = "Nominate" ->
           IF s.X \cup s.Y = {} THEN None
           ELSE Some(NewMsg(s.node_id, s.quorum_set, s.slot_index,
                            NominateTopic(s.X, s.Y)))
      [] s.phase = "NominatePrepare" ->
           Some(NewMsg(s.node_id, s.quorum_set, s.slot_index,
                       NominatePrepareTopic(s.X, s.Y, s.B, s.P, s.PP,
                                            s.CN, s.HN)))
      [] s.phase = "Prepare" ->
           Some(NewMsg(s.node_id, s.quorum_set, s.slot_index,
                       PrepareTopic(s.B, s.P, s.PP, s.CN, s.HN)))
      [] s.phase = "Commit" ->
           Some(NewMsg(s.node_id, s.quorum_set, s.slot_index,
                       CommitTopic(s.B, s.PN, s.CN, s.HN)))
      [] s.phase = "Externalize" ->
           Some(NewMsg(s.node_id, s.quorum_set, s.slot_index,
                       ExternalizeTopic(Ballot(s.CN, s.B.X), s.HN)))

\* What a slot operation hands back: the slot after it and the message
\* emitted, if any.
SlotResult(s, out) == [slot |-> s, out |-> out]

\* The slot emits msg, if there is one and it differs from the last one
\* sent.
Emit(s, msg) ==
    IF msg = None \/ msg = s.last_sent_msg THEN SlotResult(s, None)
    ELSE SlotResult([s EXCEPT !.last_sent_msg = msg], msg)

\* At most one new message, and only if it differs from the last one sent.
out_msg(s) == Emit(s, BuildMsg(s))

\* Slot::propose_values: votes to nominate the values, while nothing is
\* confirmed nominated yet.
propose_values(s, values) ==
    IF s.phase # "Nominate" THEN out_msg(s)
    ELSE out_msg(Evaluate([s EXCEPT !.X = s.X \cup (values \ s.Y)]))

\* Slot::handle
SlotHandle(s, msg) ==
    IF msg.sender_id = s.node_id \/ msg.slot_index # s.slot_index
    THEN SlotResult(s, None)
    ELSE IF msg.sender_id \in DOMAIN s.M /\ ~IsNewer(msg, s.M[msg.sender_id])
    THEN SlotResult(s, None)
    ELSE out_msg(Evaluate([s EXCEPT !.M = Insert(s.M, msg.sender_id, msg)]))

\* The slot sends msg again, changed or not.
Resend(s, msg) ==
    SlotResult(IF msg = None THEN s ELSE [s EXCEPT !.last_sent_msg = msg],
               msg)

\* The slot states its state again.
Restate(s) == Resend(s, BuildMsg(s))

\* The nominate timer runs while nothing is confirmed nominated; when it
\* expires the slot states its nomination again, with the current
\* candidates: its own votes and the values its peers have nominated.
NominateTimer(s, expired) ==
    IF expired /\ s.phase = "Nominate"
    THEN Restate(Evaluate([s EXCEPT !.X = s.X \cup NominateCandidates(s)]))
    ELSE SlotResult(s, None)

\* The ballot timer runs while a ballot is voted on; when it expires B.N
\* goes to the next counter.
BallotTimer(s, expired) ==
    IF /\ expired
       /\ s.phase \in {"NominatePrepare", "Prepare", "Commit"}
       /\ s.B.N < MaxCounter
    THEN out_msg(Evaluate([s EXCEPT !.B = Ballot(s.B.N + 1, s.B.X)]))
    ELSE SlotResult(s, None)

OptionToSeq(o) == IF o = None THEN <<>> ELSE <<Unwrap(o)>>

\* The results of the two timers, the messages in firing order.
InFiringOrder(r1, r2) ==
    [slot |-> r2.slot, out |-> OptionToSeq(r1.out) \o OptionToSeq(r2.out)]

AfterNominateTimer(r1, ballot_expired) ==
    InFiringOrder(r1, BallotTimer(r1.slot, ballot_expired))

\* Slot::process_timeouts, for the timers that have expired.  Returns the
\* slot and the messages in firing order.
SlotProcessTimeouts(s, nominate_expired, ballot_expired) ==
    AfterNominateTimer(NominateTimer(s, nominate_expired), ballot_expired)

(***************************************************************************)
(* The Node (node.rs).                                                     *)
(***************************************************************************)
\* The content hash of a message (Sha3_256 over all of its fields): distinct
\* messages have distinct hashes, so the message stands for its hash.
digest(msg) == msg

\* LruCache<Hash, ()>.  The model keeps the set of the hashes held: fewer
\* than LAST_SEEN_HISTORY_SIZE distinct messages exist within the bounds, so
\* nothing is evicted and the recency order is never observed.
LruNew == {}
LruGet(cache, h) == h \in cache
LruPut(cache, h) == cache \cup {h}

\* Node::new
NodeNew(ID, Q, current_slot_index) ==
    [ID |-> ID, Q |-> Q,
     current_slot |-> NewSlot(ID, Q, current_slot_index),
     externalized_slots |-> <<>>,
     seen_msg_hashes |-> LruNew,
     scp_timebase |-> DEFAULT_TIMEBASE_MS]

\* What a Node operation hands back: the node after it, the messages
\* returned (at most one but for process_timeouts) and whether it is Err.
NodeResult(node, out, err) == [node |-> node, out |-> out, err |-> err]

\* A faulty history that never evicts.
EvictNothing(slots) == slots

RECURSIVE Evict(_)
\* while externalized_slots.len() > MAX_EXTERNALIZED_SLOTS { remove(0) }
Evict(slots) ==
    IF Len(slots) > MAX_EXTERNALIZED_SLOTS THEN Evict(Tail(slots))
    ELSE slots

\* Node::externalize: record the values externalized by the current slot
\* and advance the current slot.
externalize(node, slot_index, payload) ==
    IF \E i \in 1 .. Len(payload.C.X) : ~validity_fn(payload.C.X[i])
    THEN NodeResult(node, <<>>, TRUE)
    ELSE NodeResult(
           [node EXCEPT
              !.externalized_slots =
                  Evict(Append(node.externalized_slots, node.current_slot)),
              !.current_slot = NewSlot(node.ID, node.Q, slot_index + 1)],
           <<>>, FALSE)

\* A faulty tail that archives the slot as it was before the call.
AfterSlotArchiveStale(node, r) ==
    IF r.out = None
    THEN NodeResult([node EXCEPT !.current_slot = r.slot], <<>>, FALSE)
    ELSE
      LET msg == Unwrap(r.out) IN
      IF msg.topic.t = "Externalize"
      THEN LET e == externalize(node, msg.slot_index, msg.topic) IN
           IF e.err THEN NodeResult(e.node, <<>>, TRUE)
           ELSE NodeResult(e.node, <<msg>>, FALSE)
      ELSE NodeResult([node EXCEPT !.current_slot = r.slot], <<msg>>, FALSE)

\* A faulty tail that takes every message of the slot for an Externalize:
\* the slot is archived and the node moves on.
AfterSlot_any_topic(node, r) ==
    IF r.out = None
    THEN NodeResult([node EXCEPT !.current_slot = r.slot], <<>>, FALSE)
    ELSE NodeResult(
           [node EXCEPT
              !.externalized_slots =
                  Evict(Append(node.externalized_slots, r.slot)),
              !.current_slot = NewSlot(node.ID, node.Q,
                                       r.slot.slot_index + 1)],
           <<Unwrap(r.out)>>, FALSE)

\* A faulty tail that hands an Externalize on like any other message: the
\* slot stays the current one.
AfterSlot_unarchived(node, r) ==
    NodeResult([node EXCEPT !.current_slot = r.slot], OptionToSeq(r.out),
               FALSE)

\* The tail of nominate and handle: what the current slot returned is
\* handed on, after externalize when it is an Externalize.
AfterSlot(node, r) ==
    LET node1 == [node EXCEPT !.current_slot = r.slot] IN
    IF r.out = None THEN NodeResult(node1, <<>>, FALSE)
    ELSE
      LET msg == Unwrap(r.out) IN
      IF msg.topic.t = "Externalize"
      THEN LET e == externalize(node1, msg.slot_index, msg.topic) IN
           IF e.err THEN NodeResult(e.node, <<>>, TRUE)
           ELSE NodeResult(e.node, <<msg>>, FALSE)
      ELSE NodeResult(node1, <<msg>>, FALSE)

\* A faulty nominate that hands the values to the slot without filtering.
nominate_unfiltered(node, values) ==
    IF values = {} THEN NodeResult(node, <<>>, FALSE)
    ELSE AfterSlot(node, propose_values(node.current_slot, values))

\* A faulty nominate that gives up when any of the values is invalid.
nominate_all_or_nothing(node, values) ==
    IF \E v \in values : ~validity_fn(v) THEN NodeResult(node, <<>>, FALSE)
    ELSE IF values = {} THEN NodeResult(node, <<>>, FALSE)
    ELSE AfterSlot(node, propose_values(node.current_slot, values))

\* ScpNode::nominate
nominate(node, values) ==
    IF values = {} THEN NodeResult(node, <<>>, FALSE)
    ELSE
      LET valid_values == {v \in values : validity_fn(v)} IN
      IF valid_values = {} THEN NodeResult(node, <<>>, FALSE)
      ELSE AfterSlot(node, propose_values(node.current_slot, valid_values))

\* A faulty handle that answers a message seen before with the last message
\* of the current slot.
handle_answers_duplicates(node, msg) ==
    IF msg.sender_id = node.ID THEN NodeResult(node, <<>>, FALSE)
    ELSE IF msg.slot_index > node.current_slot.slot_index
    THEN NodeResult(node, <<>>, FALSE)
    ELSE IF LruGet(node.seen_msg_hashes, digest(msg))
    THEN NodeResult(node, OptionToSeq(node.current_slot.last_sent_msg), FALSE)
    ELSE IF msg.slot_index = node.current_slot.slot_index
    THEN AfterSlot([node EXCEPT !.seen_msg_hashes =
                                   LruPut(node.seen_msg_hashes, digest(msg))],
                   SlotHandle(node.current_slot, msg))
    ELSE NodeResult([node EXCEPT !.seen_msg_hashes =
                                    LruPut(node.seen_msg_hashes, digest(msg))],
                    <<>>, FALSE)

\* A faulty handle that answers a message for a previous slot with the
\* Externalize message of that slot, when the slot is still stored.
handle_replies_to_past(node, msg) ==
    IF msg.sender_id = node.ID THEN NodeResult(node, <<>>, FALSE)
    ELSE IF msg.slot_index > node.current_slot.slot_index
    THEN NodeResult(node, <<>>, FALSE)
    ELSE IF LruGet(node.seen_msg_hashes, digest(msg))
    THEN NodeResult(node, <<>>, FALSE)
    ELSE IF msg.slot_index = node.current_slot.slot_index
    THEN AfterSlot([node EXCEPT !.seen_msg_hashes =
                                   LruPut(node.seen_msg_hashes, digest(msg))],
                   SlotHandle(node.current_slot, msg))
    ELSE
      LET h == node.externalized_slots IN
      NodeResult([node EXCEPT !.seen_msg_hashes =
                                 LruPut(node.seen_msg_hashes, digest(msg))],
                 IF h # <<>> /\ h[Len(h)].slot_index = msg.slot_index
                 THEN OptionToSeq(h[Len(h)].last_sent_msg)
                 ELSE <<>>,
                 FALSE)

\* A faulty handle without the test of the sender.
handle_accepts_self(node, msg) ==
    IF msg.slot_index > node.current_slot.slot_index
    THEN NodeResult(node, <<>>, FALSE)
    ELSE IF LruGet(node.seen_msg_hashes, digest(msg))
    THEN NodeResult(node, <<>>, FALSE)
    ELSE IF msg.slot_index = node.current_slot.slot_index
    THEN AfterSlot([node EXCEPT !.seen_msg_hashes =
                                   LruPut(node.seen_msg_hashes, digest(msg))],
                   SlotHandle(node.current_slot, msg))
    ELSE NodeResult([node EXCEPT !.seen_msg_hashes =
                                    LruPut(node.seen_msg_hashes, digest(msg))],
                    <<>>, FALSE)

\* A faulty handle that stores the hash before it looks at the slot index.
handle_hash_first(node, msg) ==
    IF msg.sender_id = node.ID THEN NodeResult(node, <<>>, FALSE)
    ELSE IF LruGet(node.seen_msg_hashes, digest(msg))
    THEN NodeResult(node, <<>>, FALSE)
    ELSE
      LET node1 == [node EXCEPT
                      !.seen_msg_hashes = LruPut(node.seen_msg_hashes,
                                                 digest(msg))]
      IN
      IF msg.slot_index = node1.current_slot.slot_index
      THEN AfterSlot(node1, SlotHandle(node1.current_slot, msg))
      ELSE NodeResult(node1, <<>>, FALSE)

\* A faulty handle that never stores the hash of the message.
handle_unrecorded(node, msg) ==
    IF msg.sender_id = node.ID THEN NodeResult(node, <<>>, FALSE)
    ELSE IF msg.slot_index > node.current_slot.slot_index
    THEN NodeResult(node, <<>>, FALSE)
    ELSE IF LruGet(node.seen_msg_hashes, digest(msg))
    THEN NodeResult(node, <<>>, FALSE)
    ELSE IF msg.slot_index = node.current_slot.slot_index
    THEN AfterSlot(node, SlotHandle(node.current_slot, msg))
    ELSE NodeResult(node, <<>>, FALSE)

\* ScpNode::handle
handle(node, msg) ==
    IF msg.sender_id = node.ID THEN NodeResult(node, <<>>, FALSE)
    ELSE IF msg.slot_index > node.current_slot.slot_index
    THEN NodeResult(node, <<>>, FALSE)
    ELSE
      LET msg_hash == digest(msg) IN
      IF LruGet(node.seen_msg_hashes, msg_hash)
      THEN NodeResult(node, <<>>, FALSE)
      ELSE
        LET node1 == [node EXCEPT
                        !.seen_msg_hashes = LruPut(node.seen_msg_hashes,
                                                   msg_hash)]
        IN
        IF msg.slot_index = node1.current_slot.slot_index
        THEN AfterSlot(node1, SlotHandle(node1.current_slot, msg))
        ELSE NodeResult(node1, <<>>, FALSE)

\* The outcomes of get_externalized_values: Some(values), None, or one of
\* its two panics.
Returned(kind, values) == [kind |-> kind, values |-> values]

\* ScpNode::get_externalized_values: the first slot of the history with the
\* index asked for.
get_externalized_values(node, slot_index) ==
    LET hits == {i \in 1 .. Len(node.externalized_slots) :
                   node.externalized_slots[i].slot_index = slot_index}
    IN
    IF hits = {} THEN Returned("None", <<>>)
    ELSE
      LET slot == node.externalized_slots[SetMin(hits)] IN
      IF slot.last_sent_msg = None
      THEN Returned("PanicNoMessage", <<>>)
      ELSE IF Unwrap(slot.last_sent_msg).topic.t = "Externalize"
      THEN Returned("Some", Unwrap(slot.last_sent_msg).topic.C.X)
      ELSE Returned("PanicNotExternalized", <<>>)

\* A faulty process_timeouts that never asks the current slot.
process_timeouts_idle(node, nominate_expired, ballot_expired) ==
    NodeResult(node, <<>>, FALSE)

\* ScpNode::process_timeouts
process_timeouts(node, nominate_expired, ballot_expired) ==
    LET r == SlotProcessTimeouts(node.current_slot, nominate_expired,
                                 ballot_expired)
    IN NodeResult([node EXCEPT !.current_slot = r.slot], r.out, FALSE)

\* ScpNode::current_slot_index
current_slot_index(node) == node.current_slot.slot_index

\* A faulty reset that builds the whole node anew.
reset_as_new(node, slot_index) ==
    NodeResult(NodeNew(node.ID, node.Q, slot_index), <<>>, FALSE)

\* ScpNode::reset_slot_index
reset_slot_index(node, slot_index) ==
    NodeResult([node EXCEPT
                  !.current_slot = NewSlot(node.ID, node.Q, slot_index)],
               <<>>, FALSE)

(***************************************************************************)
(* State.                                                                  *)
(***************************************************************************)
VARIABLES
    nodes,         \* the Node of each node ID
    net,           \* the messages the transport holds: every message emitted
    last_emitted,  \* per node, the last message it emitted, if any
    resets,        \* the number of reset_slot_index calls so far
    handled,       \* per node, the calls of handle made with a message of
                   \* another sender: the message, and whether its slot index
                   \* was at most the current one when the call was made
    call           \* the last call of a library function made on its own:
                   \* its name, its arguments and what it returned

vars == <<nodes, net, last_emitted, resets, handled, call>>

\* No library function has been called on its own.
NoCall == [fn |-> "none", arg |-> <<>>, ret |-> <<>>]
\* A call of library function fn on arg that returned ret.
Called(fn, arg, ret) == [fn |-> fn, arg |-> arg, ret |-> ret]

\* A call of handle, as recorded in handled.  A message the node sent itself
\* is answered before anything else is looked at, and is not recorded.
HandleCall(node, msg) ==
    [msg |-> msg, in_time |-> msg.slot_index <= current_slot_index(node)]

\* One call of a public operation of node n, with result r: the node is
\* left as the call leaves it, and the transport takes every message
\* returned.
Apply(n, r) ==
    /\ nodes' = [nodes EXCEPT ![n] = r.node]
    /\ last_emitted' =
         IF r.out = <<>> THEN last_emitted
         ELSE [last_emitted EXCEPT ![n] = Some(r.out[Len(r.out)])]
    /\ net' = net \cup SeqToSet(r.out)
    /\ UNCHANGED call

Nominate(n, values) ==
    /\ Apply(n, nominate(nodes[n], values))
    /\ UNCHANGED <<resets, handled>>

Handle(n, msg) ==
    /\ Apply(n, handle(nodes[n], msg))
    /\ handled' =
         IF msg.sender_id = n THEN handled
         ELSE [handled EXCEPT ![n] = @ \cup {HandleCall(nodes[n], msg)}]
    /\ UNCHANGED resets

ProcessTimeouts(n, nominate_expired, ballot_expired) ==
    /\ Apply(n, process_timeouts(nodes[n], nominate_expired, ballot_expired))
    /\ UNCHANGED <<resets, handled>>

ResetSlotIndex(n, slot_index) ==
    /\ Apply(n, reset_slot_index(nodes[n], slot_index))
    /\ resets' = resets + 1
    /\ UNCHANGED handled

(***************************************************************************)
(* The two-node network of basic_two_node_consensus: nodes 1 and 2, each   *)
(* with the quorum set (threshold 1, [other]).  Messages are delivered in  *)
(* any order, any number of times or never; timers expire at any time.     *)
(***************************************************************************)
NodeIds == {1, 2}
Other(n) == 3 - n
TwoNodeQ(n) == new_with_node_ids(1, <<Other(n)>>)

Init ==
    /\ nodes = [n \in NodeIds |-> NodeNew(n, TwoNodeQ(n), 1)]
    /\ net = {}
    /\ last_emitted = [n \in NodeIds |-> None]
    /\ resets = 0
    /\ call = NoCall
    /\ handled = [n \in NodeIds |-> {}]

Running(n) == current_slot_index(nodes[n]) <= MaxSlot

\* The value sets the client of node n submits: the value named after the
\* node, so that the two nodes start from different values.
Proposals(n) == {{n}}

Next ==
    \/ \E n \in NodeIds : \E values \in Proposals(n) :
         /\ Running(n)
         /\ Nominate(n, values)
    \/ \E n \in NodeIds, msg \in net :
         /\ Running(n)
         /\ Handle(n, msg)
    \/ \E n \in NodeIds, ne \in BOOLEAN, be \in BOOLEAN :
         /\ Running(n)
         /\ ProcessTimeouts(n, ne, be)

Spec == Init /\ [][Next]_vars


(***************************************************************************)
(* The history of one node: node 1 of the two-node network, driven slot    *)
(* after slot by messages of its peer, with reset_slot_index among its     *)
(* operations.  The peer's messages are inputs of handle; they need not    *)
(* come from an honest node.                                               *)
(***************************************************************************)
\* The peer accepts v as nominated and votes to prepare (1, <<v>>).
PeerPrepare(k, v) ==
    NewMsg(2, TwoNodeQ(2), k,
           NominatePrepareTopic({}, {v}, Ballot(1, <<v>>), None, None, 0, 0))

\* The peer has externalized <<v>>.
PeerExternalize(k, v) ==
    NewMsg(2, TwoNodeQ(2), k, ExternalizeTopic(Ballot(1, <<v>>), INFINITY))

Varied(k) == k <= MaxForkSlot

\* The values the peer may externalize at slot k; 0 is invalid.
HistValues(k) == IF Varied(k) THEN Values ELSE {1}

\* The messages that may reach the node while its current slot is k: the
\* peer's for slot k and, late, one for the slot before.
PeerMsgs(k) ==
    {PeerPrepare(k, v) : v \in HistValues(k)}
    \cup {PeerExternalize(k, v) : v \in HistValues(k)}
    \cup (IF k > 1 /\ Varied(k - 1) THEN {PeerExternalize(k - 1, 1)} ELSE {})

HistProposals == {{0}, {1}}

ResetTargets == (1 .. MaxForkSlot + 1) \cup {MaxHistSlot}

HistInit ==
    /\ nodes = [n \in NodeIds |-> NodeNew(n, TwoNodeQ(n), 1)]
    /\ net = {}
    /\ last_emitted = [n \in NodeIds |-> None]
    /\ resets = 0
    /\ call = NoCall
    /\ handled = [n \in NodeIds |-> {}]

HistRunning == current_slot_index(nodes[1]) <= MaxHistSlot

HistNext ==
    \/ \E values \in HistProposals :
         /\ HistRunning
         /\ Varied(current_slot_index(nodes[1]))
         /\ Nominate(1, values)
    \/ \E msg \in PeerMsgs(current_slot_index(nodes[1])) :
         /\ HistRunning
         /\ Handle(1, msg)
    \/ \E ne \in BOOLEAN, be \in BOOLEAN :
         /\ HistRunning
         /\ Varied(current_slot_index(nodes[1]))
         /\ ProcessTimeouts(1, ne, be)
    \/ \E slot_index \in ResetTargets :
         /\ resets < MaxResets
         /\ ResetSlotIndex(1, slot_index)

HistSpec == HistInit /\ [][HistNext]_vars

(***************************************************************************)
(* The operations of one node on every kind of input: node 1 of the        *)
(* two-node network over its first slots, handed the peer's messages for   *)
(* the current slot, for the next one (early) and for the one before       *)
(* (late), its own last message coming back, value sets that are empty or  *)
(* hold the invalid value, timer expiries, and reset_slot_index.           *)
(***************************************************************************)
\* The message of the peer that arrives one slot early.
EarlyMsgs(k) == {PeerPrepare(k + 1, 1)}

\* The node's own last message, coming back to it.
EchoMsgs == last_emitted[1]

ReplayMsgs == PeerMsgs(current_slot_index(nodes[1]))
              \cup EarlyMsgs(current_slot_index(nodes[1]))
              \cup EchoMsgs

ReplayProposals == SUBSET {0, 1}

ReplayTargets == 1 .. MaxReplaySlot

ReplayInit ==
    /\ nodes = [n \in NodeIds |-> NodeNew(n, TwoNodeQ(n), 1)]
    /\ net = {}
    /\ last_emitted = [n \in NodeIds |-> None]
    /\ resets = 0
    /\ call = NoCall
    /\ handled = [n \in NodeIds |-> {}]

ReplayRunning == current_slot_index(nodes[1]) <= MaxReplaySlot

ReplayNext ==
    \/ \E values \in ReplayProposals :
         /\ ReplayRunning
         /\ Nominate(1, values)
    \/ \E msg \in ReplayMsgs :
         /\ ReplayRunning
         /\ Handle(1, msg)
    \/ \E ne \in BOOLEAN, be \in BOOLEAN :
         /\ ReplayRunning
         /\ Varied(current_slot_index(nodes[1]))
         /\ ProcessTimeouts(1, ne, be)
    \/ \E slot_index \in ReplayTargets :
         /\ resets < MaxResets
         /\ ResetSlotIndex(1, slot_index)

ReplaySpec == ReplayInit /\ [][ReplayNext]_vars

(***************************************************************************)
(* The directed cycle: three_node_cycle, and the two-node cycle of         *)
(* cyclic_2.  Node n trusts only the next node, at threshold 1.  A client  *)
(* submits one set of values to one node.  Every message emitted is handed *)
(* to every other node: the least node that has not been handed           *)
(* everything is served first, the least sender first, and of one sender   *)
(* the older message first.  Timers expire at any time.                    *)
(***************************************************************************)
\* The nodes of the largest cycle, and the nodes of the cycle at hand.
CycleIds == 1 .. 3
CycleNodes == DOMAIN nodes

\* three_node_cycle, directed_cycle: node n trusts the next node.
CycleQ(k, n) == new_with_node_ids(1, <<(n % k) + 1>>)

CycleProposals == {{1, 2}}

CycleInit ==
    /\ \E k \in {2, 3} :
         /\ nodes = [n \in 1 .. k |-> NodeNew(n, CycleQ(k, n), 1)]
         /\ last_emitted = [n \in 1 .. k |-> None]
         /\ handled = [n \in 1 .. k |-> {}]
    /\ net = {}
    /\ resets = 0
    /\ call = NoCall

\* A message of another node that has not been handed to node n.
Undelivered(n, msg) ==
    /\ msg.sender_id # n
    /\ \A c \in handled[n] : c.msg # msg

\* Message a comes before message b of the same sender: b is newer than a.
Older(a, b) == IsNewer(b, a) /\ ~IsNewer(a, b)

\* It is the turn of node n to be handed msg.
CycleTurn(n, msg) ==
    /\ Running(n)
    /\ Undelivered(n, msg)
    /\ \A m \in CycleNodes, other \in net :
         Running(m) /\ Undelivered(m, other) =>
             \/ n < m
             \/ n = m /\ msg.sender_id <= other.sender_id
    /\ \A other \in net :
         other.sender_id = msg.sender_id /\ Undelivered(n, other) =>
             ~Older(other, msg)

\* The client submits its values to one node of the cycle.
Submit ==
    /\ net = {}
    /\ \E n \in CycleNodes, values \in CycleProposals : Nominate(n, values)

\* The transport hands node n the next message.
Deliver(n) ==
    \E msg \in net :
        /\ CycleTurn(n, msg)
        /\ Handle(n, msg)

\* The periodic tick of node n.
Tick(n, nominate_expired, ballot_expired) ==
    /\ Running(n)
    /\ ProcessTimeouts(n, nominate_expired, ballot_expired)

CycleNext ==
    \/ Submit
    \/ \E n \in CycleNodes : Deliver(n)
    \/ \E n \in CycleNodes, ne \in BOOLEAN, be \in BOOLEAN : Tick(n, ne, be)

CycleSpec == CycleInit /\ [][CycleNext]_vars

\* The call with result r at node n changes the state.
Changes(n, r) ==
    \/ r.node # nodes[n]
    \/ ~(SeqToSet(r.out) \subseteq net)
    \/ r.out # <<>> /\ last_emitted[n] # Some(r.out[Len(r.out)])

\* ENABLED <<Deliver(n)>>_vars: every delivery adds to handled.
DeliverDue(n) == n \in CycleNodes /\ \E msg \in net : CycleTurn(n, msg)

\* ENABLED <<Tick(n, TRUE, TRUE)>>_vars.
TickDue(n) ==
    /\ n \in CycleNodes
    /\ Running(n)
    /\ Changes(n, process_timeouts(nodes[n], TRUE, TRUE))

\* Every message emitted is eventually delivered, and process_timeouts is
\* called again and again with both timers expired: weak fairness of
\* Deliver(n) and of Tick(n, TRUE, TRUE), that is WF_vars(Deliver(n)) and
\* WF_vars(Tick(n, TRUE, TRUE)) with ENABLED written out as DeliverDue(n)
\* and TickDue(n).
CycleFair ==
    /\ \A n \in CycleIds :
         []<>~DeliverDue(n) \/ []<><<n \in CycleNodes /\ Deliver(n)>>_vars
    /\ \A n \in CycleIds :
         \/ []<>~TickDue(n)
         \/ []<><<n \in CycleNodes /\ Tick(n, TRUE, TRUE)>>_vars

CycleFairSpec == CycleSpec /\ CycleFair

(***************************************************************************)
(* The four-node network of fig_2_network.  Clients submit a value to any  *)
(* of the nodes.  A node is handed the latest message of every other node: *)
(* the greatest node that has not been handed everything is served first,  *)
(* the least sender first, so that node 1 is the last to hear anything.    *)
(***************************************************************************)
Fig2Nodes == 1 .. 4

\* fig_2_network: the quorum set of each node.
Fig2Q(n) ==
    CASE n = 1 -> new_with_node_ids(2, <<2, 3>>)
      [] n = 2 -> new_with_node_ids(2, <<3, 4>>)
      [] n = 3 -> new_with_node_ids(2, <<2, 4>>)
      [] n = 4 -> new_with_node_ids(2, <<2, 4>>)

Fig2Init ==
    /\ nodes = [n \in Fig2Nodes |-> NodeNew(n, Fig2Q(n), 1)]
    /\ net = {}
    /\ last_emitted = [n \in Fig2Nodes |-> None]
    /\ resets = 0
    /\ call = NoCall
    /\ handled = [n \in Fig2Nodes |-> {}]

\* The latest message of another node, not handed to node n yet.
Fig2Pending(n, msg) ==
    /\ msg \in last_emitted[msg.sender_id]
    /\ Undelivered(n, msg)

\* It is the turn of node n to be handed msg.
Fig2Turn(n, msg) ==
    /\ Fig2Pending(n, msg)
    /\ \A m \in Fig2Nodes, other \in net :
         Fig2Pending(m, other) =>
             \/ m < n
             \/ m = n /\ msg.sender_id <= other.sender_id

Fig2Next ==
    \/ \E n \in Fig2Nodes : \E values \in {{1}} :
         /\ last_emitted[n] = None
         /\ Nominate(n, values)
    \/ \E n \in Fig2Nodes, msg \in net :
         /\ Fig2Turn(n, msg)
         /\ Handle(n, msg)

Fig2Spec == Fig2Init /\ [][Fig2Next]_vars

(***************************************************************************)
(* The exchange of basic_two_node_consensus: node 2 nominates, and every   *)
(* message emitted is handed to the other node, until nothing is pending.  *)
(***************************************************************************)
TraceProposals == (SUBSET (1 .. MaxTraceValue)) \ {{}}

TraceInit ==
    /\ \E i \in 1 .. MaxSlot :
         nodes = [n \in NodeIds |-> NodeNew(n, TwoNodeQ(n), i)]
    /\ net = {}
    /\ last_emitted = [n \in NodeIds |-> None]
    /\ resets = 0
    /\ call = NoCall
    /\ handled = [n \in NodeIds |-> {}]

\* Node n's last message has not been handed to the other node yet.
Pending(n) ==
    /\ last_emitted[n] # None
    /\ ~LruGet(nodes[Other(n)].seen_msg_hashes,
               digest(Unwrap(last_emitted[n])))

TraceNext ==
    \/ \E values \in TraceProposals :
         /\ net = {}
         /\ Nominate(2, values)
    \/ \E n \in NodeIds :
         /\ Pending(n)
         /\ Handle(Other(n), Unwrap(last_emitted[n]))

TraceSpec == TraceInit /\ [][TraceNext]_vars

\* The topics of the exchange on value set S, as the test expects them.
TraceTopics(S) ==
    << NominateTopic(S, {}),
       NominateTopic({}, S),
       NominatePrepareTopic({}, S, Ballot(1, SetToSeq(S)), None, None, 0, 0),
       NominatePrepareTopic({}, S, Ballot(1, SetToSeq(S)),
                            Some(Ballot(1, SetToSeq(S))), None, 0, 0),
       PrepareTopic(Ballot(1, SetToSeq(S)), Some(Ballot(1, SetToSeq(S))),
                    None, 1, 1),
       CommitTopic(Ballot(1, SetToSeq(S)), 1, 1, 1),
       ExternalizeTopic(Ballot(1, SetToSeq(S)), 1),
       ExternalizeTopic(Ballot(1, SetToSeq(S)), INFINITY) >>

TraceLength == Len(TraceTopics({}))

\* The node that emits the k-th message: node 2 starts.
TraceSender(k) == IF k % 2 = 1 THEN 2 ELSE 1

\* The k-th message of the exchange on value set S at slot i.
TraceMsg(k, S, i) ==
    NewMsg(TraceSender(k), TwoNodeQ(TraceSender(k)), i, TraceTopics(S)[k])

\* C2: in the two-node exchange every handle call emits a message, and the
\* messages emitted are, in this order, Nominate(X=S) by 2, Nominate(Y=S)
\* by 1, NominatePrepare(B=(1,S)) by 2, NominatePrepare(P=(1,S)) by 1,
\* Prepare(CN=1,HN=1) by 2, Commit(PN=1,CN=1,HN=1) by 1,
\* Externalize(C=(1,S),HN=1) by 2 and Externalize(C=(1,S),HN=INFINITY) by 1.
C2_TwoNodeTrace ==
    LET k == Cardinality(net) IN
    /\ k <= TraceLength
    /\ k > 0 =>
         \E S \in TraceProposals, i \in 1 .. MaxSlot :
            /\ net = {TraceMsg(j, S, i) : j \in 1 .. k}
            /\ last_emitted[TraceSender(k)] = Some(TraceMsg(k, S, i))
            /\ k > 1 => last_emitted[TraceSender(k - 1)] =
                           Some(TraceMsg(k - 1, S, i))
            \* the message handed over last was answered, and the answer is
            \* still to be handed over
            /\ k < TraceLength => Pending(TraceSender(k))

\* Both nodes have externalized, node 1 with HN = INFINITY.
C2_Witness ==
    /\ Cardinality(net) = TraceLength
    /\ last_emitted[1] # None
    /\ Unwrap(last_emitted[1]).topic.t = "Externalize"
    /\ Unwrap(last_emitted[1]).topic.HN = INFINITY
    /\ \A n \in NodeIds : Len(nodes[n].externalized_slots) = 1


(***************************************************************************)
(* Properties of the two-node network (Spec).                              *)
(***************************************************************************)
SlotIndices == 0 .. MaxSlot + 1

\* C1: agreement.  Whatever the order, duplication or loss of the messages
\* delivered and whenever the timers fire, the two nodes never externalize
\* different value lists for one slot index: when get_externalized_values(i)
\* is Some(a) at one node and Some(b) at the other, a = b.
C1_Agreement ==
    \A i \in SlotIndices :
      LET a == get_externalized_values(nodes[1], i)
          b == get_externalized_values(nodes[2], i)
      IN (a.kind = "Some" /\ b.kind = "Some") => a.values = b.values

\* Both nodes have externalized slot 1, after both clients submitted their
\* (different) values and a ballot timer fired.
C1_Witness ==
    /\ get_externalized_values(nodes[1], 1).kind = "Some"
    /\ get_externalized_values(nodes[2], 1).kind = "Some"
    /\ \E m \in net : m.sender_id = 1 /\ m.topic.t = "Nominate"
                      /\ 1 \in m.topic.X
    /\ \E m \in net : m.sender_id = 2 /\ m.topic.t = "Nominate"
                      /\ 2 \in m.topic.X
    /\ \E m \in net : m.topic.t # "Nominate" /\ m.topic.t # "Externalize"
                      /\ m.topic.B.N > 1

\* The results of the calls node n may make next.
NextCalls(n) ==
    {nominate(nodes[n], values) : values \in Proposals(n)}
    \cup {handle(nodes[n], msg) : msg \in net}
    \cup {process_timeouts(nodes[n], ne, be) : ne \in BOOLEAN, be \in BOOLEAN}

\* The topics of successive messages for one slot index do not go back.
InPhaseOrder(msgs) ==
    \A i \in 1 .. Len(msgs) - 1 :
      msgs[i].slot_index = msgs[i + 1].slot_index
        => TopicRank(msgs[i].topic.t) <= TopicRank(msgs[i + 1].topic.t)

\* C3: phase monotonicity.  For one slot index the topics of the successive
\* messages a node emits from nominate, handle and process_timeouts never go
\* back in the order Nominate < NominatePrepare < Prepare < Commit <
\* Externalize, whatever the peers deliver: the messages any next call
\* returns continue the last message emitted in phase order.
C3_PhaseMonotonicity ==
    \A n \in NodeIds :
      \A r \in NextCalls(n) :
        InPhaseOrder(OptionToSeq(last_emitted[n]) \o r.out)

\* Node n is past nomination, holds a later-phase message of its peer, and
\* an earlier-phase message of that peer is still to be delivered to it.
C3_Witness ==
    \E n \in NodeIds :
      /\ last_emitted[n] # None
      /\ TopicRank(Unwrap(last_emitted[n]).topic.t) >= 3
      /\ Other(n) \in DOMAIN nodes[n].current_slot.M
      /\ \E m \in net :
           /\ m.sender_id = Other(n)
           /\ m.slot_index = current_slot_index(nodes[n])
           /\ ~LruGet(nodes[n].seen_msg_hashes, digest(m))
           /\ TopicRank(m.topic.t) <
                TopicRank(nodes[n].current_slot.M[Other(n)].topic.t)

(***************************************************************************)
(* Properties of the history of a node (HistSpec).                         *)
(***************************************************************************)
HistIndices == 0 .. MaxHistSlot + 1

\* The calls of nominate and handle node 1 may make next.
HistCalls ==
    {nominate(nodes[1], values) : values \in HistProposals}
    \cup {handle(nodes[1], msg) :
            msg \in PeerMsgs(current_slot_index(nodes[1]))}

\* What C4 states of a call with result r made by node.
Advances(node, r) ==
    LET msg == r.out[1]
        k == msg.slot_index
        h == r.node.externalized_slots
    IN /\ h # <<>>
       /\ h[Len(h)].slot_index = k
       /\ h[Len(h)].last_sent_msg = Some(msg)
       /\ get_externalized_values(r.node, k) = Returned("Some", msg.topic.C.X)
       /\ current_slot_index(r.node) = k + 1
       /\ r.node.current_slot = NewSlot(node.ID, node.Q, k + 1)

\* C4: slot advancement.  Whenever nominate or handle returns an Externalize
\* message for slot k whose values all pass validity_fn, the same call has
\* appended the current slot to externalized_slots, get_externalized_values(k)
\* returns the message's C.X, and the current slot is a fresh slot at k + 1
\* with the same node ID and quorum set.
C4_SlotAdvancement ==
    \A r \in HistCalls :
      (/\ r.out # <<>>
       /\ r.out[1].topic.t = "Externalize"
       /\ \A i \in 1 .. Len(r.out[1].topic.C.X) :
            validity_fn(r.out[1].topic.C.X[i]))
      => Advances(nodes[1], r)

\* C5: history bound.  After any sequence of nominate, handle,
\* process_timeouts and reset_slot_index calls, externalized_slots holds at
\* most MAX_EXTERNALIZED_SLOTS slots.
C5_HistoryBound ==
    \A n \in NodeIds :
      Len(nodes[n].externalized_slots) <= MAX_EXTERNALIZED_SLOTS

\* The history is full and its oldest slot has been evicted.
C5_Witness ==
    /\ Len(nodes[1].externalized_slots) = MAX_EXTERNALIZED_SLOTS
    /\ resets = 0
    /\ nodes[1].externalized_slots[1].slot_index = 2
    /\ current_slot_index(nodes[1]) = MAX_EXTERNALIZED_SLOTS + 2

\* C6: after any sequence of the public operations the slot indices in
\* externalized_slots are strictly increasing from first to last.
C6_StrictlyIncreasing ==
    \A n \in NodeIds :
      LET h == nodes[n].externalized_slots IN
      \A i \in 1 .. Len(h), j \in 1 .. Len(h) :
        i < j => h[i].slot_index < h[j].slot_index

\* C7: after any sequence of the public operations current_slot_index() is
\* strictly greater than the index of every slot in externalized_slots.
C7_CurrentAboveHistory ==
    \A n \in NodeIds :
      LET h == nodes[n].externalized_slots IN
      \A i \in 1 .. Len(h) : h[i].slot_index < current_slot_index(nodes[n])

\* C8: every slot stored in externalized_slots has a last emitted message,
\* and that message is an Externalize; get_externalized_values reaches
\* neither of its panics, for any slot index.
C8_ArchivedExternalize ==
    \A n \in NodeIds :
      LET h == nodes[n].externalized_slots IN
      /\ \A i \in 1 .. Len(h) :
           /\ h[i].last_sent_msg # None
           /\ Unwrap(h[i].last_sent_msg).topic.t = "Externalize"
      /\ \A i \in HistIndices :
           get_externalized_values(nodes[n], i).kind \in {"Some", "None"}

\* Slots are stored, one of them after a reset_slot_index, and one of them
\* after the node nominated and a ballot timer fired.
C8_Witness ==
    LET h == nodes[1].externalized_slots IN
    /\ Len(h) >= 2
    /\ resets = 1
    /\ get_externalized_values(nodes[1], 1).kind = "Some"
    /\ \E i \in 1 .. Len(h) : h[i].B.N > 1 /\ h[i].B.N < INFINITY

\* A step leaves the slots stored as they are, but for evicting the oldest
\* and appending new ones.
ArchiveKept(h, h2) ==
    \E d \in 0 .. Len(h) :
      /\ Len(h2) >= Len(h) - d
      /\ \A j \in 1 .. Len(h) - d : h2[j] = h[d + j]

\* C9: finality.  Once get_externalized_values(i) has returned Some(v), no
\* later public operation makes it return Some(w) with w # v: it keeps
\* returning Some(v) or becomes None; and no operation modifies a slot
\* already stored in externalized_slots.
C9_Finality ==
    [][\A n \in NodeIds :
         /\ \A i \in HistIndices :
              get_externalized_values(nodes[n], i).kind = "Some"
                => get_externalized_values(nodes'[n], i) \in
                     {get_externalized_values(nodes[n], i),
                      Returned("None", <<>>)}
         /\ ArchiveKept(nodes[n].externalized_slots,
                        nodes'[n].externalized_slots)]_vars

\* The value list of the latest slot stored with index i.
LatestValues(h, i) ==
    LET j == SetMax({x \in 1 .. Len(h) : h[x].slot_index = i})
    IN Unwrap(h[j].last_sent_msg).topic.C.X

\* C10: retention.  get_externalized_values(i) returns the externalized
\* value list of slot i exactly while slot i is among the
\* MAX_EXTERNALIZED_SLOTS slots externalized most recently, and None for the
\* current slot index, for an index never externalized and for an evicted
\* slot.
C10_Retention ==
    \A n \in NodeIds :
      LET h == nodes[n].externalized_slots IN
      /\ Len(h) <= MAX_EXTERNALIZED_SLOTS
      /\ get_externalized_values(nodes[n], current_slot_index(nodes[n])) =
           Returned("None", <<>>)
      /\ \A i \in HistIndices :
           IF \E j \in 1 .. Len(h) : h[j].slot_index = i
           THEN get_externalized_values(nodes[n], i) =
                  Returned("Some", LatestValues(h, i))
           ELSE get_externalized_values(nodes[n], i) = Returned("None", <<>>)

(***************************************************************************)
(* Properties of the operations of one node (ReplaySpec).                  *)
(***************************************************************************)
\* C11 as stated: once handle has been called with a message, every later
\* call of handle with a message of the same content returns no message.
C11_Dedup ==
    \A c \in handled[1] : handle(nodes[1], c.msg).out = <<>>

\* C11, amended: once handle has been called with a message of another
\* sender whose slot index was at most the current slot index at that call,
\* every later call of handle with a message of the same content returns no
\* message and no error, whatever was called in between (reset_slot_index
\* included), while the hash is among the LAST_SEEN_HISTORY_SIZE hashes
\* used last.  A message dropped for being early is not remembered, and is
\* processed when it comes again.
C11_DedupInTime ==
    \A c \in handled[1] :
      c.in_time => handle(nodes[1], c.msg) = NodeResult(nodes[1], <<>>, FALSE)

\* A message handled in time comes again after reset_slot_index has put a
\* fresh slot at its index: the slot itself would answer it.
C11_Witness ==
    \E c \in handled[1] :
      /\ c.in_time
      /\ resets > 0
      /\ c.msg.slot_index = current_slot_index(nodes[1])
      /\ SlotHandle(nodes[1].current_slot, c.msg).out # None

\* A second handle(msg), on the node the first handle(msg) left with result
\* r, returns nothing and leaves the whole node as it was.
SecondCallIdle(r, msg) ==
    handle(r.node, msg) = NodeResult(r.node, <<>>, FALSE)

\* C12: idempotence and replay.  For every message, an Externalize included,
\* a second handle of the message right after the first returns no message
\* and no error and leaves the node (current slot, externalized_slots,
\* current slot index) as the first call left it; the node being as it was
\* before the second call, the same holds of every further call in the row.
C12_Idempotence ==
    \A msg \in ReplayMsgs : SecondCallIdle(handle(nodes[1], msg), msg)

\* The node has just handled an Externalize of its peer, externalized the
\* slot on it and moved on, and the same Externalize may come again.
C12_Witness ==
    \E c \in handled[1] :
      /\ c.in_time
      /\ c.msg.topic.t = "Externalize"
      /\ LruGet(nodes[1].seen_msg_hashes, digest(c.msg))
      /\ last_emitted[1] # None
      /\ Unwrap(last_emitted[1]).topic.t = "Externalize"
      /\ Unwrap(last_emitted[1]).slot_index = c.msg.slot_index
      /\ current_slot_index(nodes[1]) = c.msg.slot_index + 1
      /\ c.msg \in ReplayMsgs

\* A message with the content of msg and sender_id the node's own ID.
FromSelf(msg) == [msg EXCEPT !.sender_id = 1]

\* Messages whose sender is node 1: the ones it emitted, and messages of any
\* content the peer may send, for the slot before, the current and the next
\* slot, under the node's ID.
SelfMsgs ==
    net \cup {FromSelf(msg) : msg \in ReplayMsgs}

\* C13: self-message rejection.  handle(m) with m.sender_id the node's own
\* ID returns Ok(None) and leaves the whole node as it is: current slot,
\* externalized_slots and seen_msg_hashes, in which the hash of m is not
\* recorded.
C13_SelfRejected ==
    \A msg \in SelfMsgs :
      /\ handle(nodes[1], msg) = NodeResult(nodes[1], <<>>, FALSE)
      /\ msg \in net => ~LruGet(handle(nodes[1], msg).node.seen_msg_hashes,
                                digest(msg))

\* The node's last message, for the current slot, comes back to it: the
\* same content under the peer's ID would be recorded and change the node.
C13_Witness ==
    /\ last_emitted[1] # None
    /\ Unwrap(last_emitted[1]) \in SelfMsgs
    /\ Unwrap(last_emitted[1]).slot_index = current_slot_index(nodes[1])
    /\ handle(nodes[1], [Unwrap(last_emitted[1]) EXCEPT !.sender_id = 2]).node
         # nodes[1]

\* The messages the peer may send for the slots before slot k.
PastMsgs(k) ==
    {PeerPrepare(j, v) : j \in 1 .. k - 1, v \in Values}
    \cup {PeerExternalize(j, v) : j \in 1 .. k - 1, v \in Values}

\* The call with result r returned Ok(None) and left the current slot and
\* externalized_slots of node as they were.
Dropped(node, r) ==
    /\ r.out = <<>>
    /\ ~r.err
    /\ r.node.current_slot = node.current_slot
    /\ r.node.externalized_slots = node.externalized_slots

\* C14: past-slot messages.  handle(m) with m.slot_index smaller than
\* current_slot_index() returns Ok(None) and leaves the current slot and
\* externalized_slots unchanged, whatever the topic of m, an Externalize
\* with other values than the node externalized for that slot included.
C14_PastDropped ==
    \A msg \in PastMsgs(current_slot_index(nodes[1])) :
      Dropped(nodes[1], handle(nodes[1], msg))

\* Without any reset, the node has externalized slot 1 and moved on, and has
\* then been handed the peer's Externalize for slot 1 with other values.
C14_Witness ==
    \E c \in handled[1] :
      /\ resets = 0
      /\ c.msg.topic.t = "Externalize"
      /\ c.msg.slot_index < current_slot_index(nodes[1])
      /\ LruGet(nodes[1].seen_msg_hashes, digest(c.msg))
      /\ get_externalized_values(nodes[1], c.msg.slot_index).kind = "Some"
      /\ get_externalized_values(nodes[1], c.msg.slot_index).values
           # c.msg.topic.C.X

\* The value sets with no valid value: the empty set and the sets of
\* invalid values.
NoValidValue == {S \in SUBSET Values : \A v \in S : ~validity_fn(v)}

\* C15: nominate called with an empty value set, or with a set in which
\* every value fails validity_fn, returns Ok(None) and leaves the node as it
\* is: nothing is proposed to the current slot and no slot is externalized.
C15_NothingToNominate ==
    \A values \in NoValidValue :
      nominate(nodes[1], values) = NodeResult(nodes[1], <<>>, FALSE)

\* The current slot is in nomination and would take a proposal: of a valid
\* value, answered with a message, and of the invalid one, were it handed
\* on.
C15_Witness ==
    /\ nodes[1].current_slot.phase = "Nominate"
    /\ nodes[1].current_slot.M # <<>>
    /\ nominate(nodes[1], {1}).out # <<>>
    /\ \E values \in NoValidValue :
         values # {} /\ propose_values(nodes[1].current_slot, values).slot
                          # nodes[1].current_slot

\* Every value a topic names, in any of its fields.
OptBallotValues(o) == IF o = None THEN {} ELSE SeqToSet(Unwrap(o).X)
TopicValues(topic) ==
    (IF HasNominate(topic) THEN topic.X \cup topic.Y ELSE {})
    \cup (IF HasPrepare(topic)
          THEN OptBallotValues(topic.P) \cup OptBallotValues(topic.PP)
          ELSE {})
    \cup (IF topic.t \in {"NominatePrepare", "Prepare", "Commit"}
          THEN SeqToSet(topic.B.X) ELSE {})
    \cup (IF topic.t = "Externalize" THEN SeqToSet(topic.C.X) ELSE {})

\* The slot that took the proposal of a nominate call with result r: the
\* current slot, or the slot the call archived.
ProposedTo(node, r) ==
    IF r.node.externalized_slots = node.externalized_slots
    THEN r.node.current_slot
    ELSE r.node.externalized_slots[Len(r.node.externalized_slots)]

\* What C16 states of nominate(values) called on node, with result r.
ForwardsValid(node, values, r) ==
    /\ r = nominate(node, {v \in values : validity_fn(v)})
    /\ \A i \in 1 .. Len(r.out) :
         \A v \in TopicValues(r.out[i].topic) : validity_fn(v)
    /\ node.current_slot.phase = "Nominate" =>
         {v \in values : validity_fn(v)}
           \subseteq ProposedTo(node, r).X \cup ProposedTo(node, r).Y

\* C16: nominate forwards to the current slot exactly the values of its
\* input that pass validity_fn.  The call does what the call with the valid
\* values alone does; no value that fails validity_fn appears in any field
\* of the message it returns; and every valid value of the input is voted
\* for or accepted by a slot in nomination.
C16_ForwardsValid ==
    \A values \in SUBSET Values :
      ForwardsValid(nodes[1], values, nominate(nodes[1], values))

\* The node has nominated and voted for the valid value; the slot holds no
\* invalid value, though the sets proposed include one with the invalid
\* value, which the slot would vote for were it handed on.
C16_Witness ==
    /\ last_emitted[1] # None
    /\ Unwrap(last_emitted[1]).topic.t = "Nominate"
    /\ Unwrap(last_emitted[1]).topic.X = {1}
    /\ nodes[1].current_slot.X = {1}
    /\ {0, 1} \in ReplayProposals
    /\ 0 \in propose_values(NewSlot(1, TwoNodeQ(1),
                                     current_slot_index(nodes[1])),
                             {0, 1}).slot.X

\* The calls of nominate and handle node 1 may make next, on every input of
\* the single-node model.
ReplayCalls ==
    {nominate(nodes[1], values) : values \in ReplayProposals}
    \cup {handle(nodes[1], msg) : msg \in ReplayMsgs}

\* msg is an Externalize with a value that fails validity_fn.
InvalidExternalize(msg) ==
    /\ msg.topic.t = "Externalize"
    /\ \E i \in 1 .. Len(msg.topic.C.X) : ~validity_fn(msg.topic.C.X[i])

\* The call with result r made on node neither archived nor advanced.
NotAdvanced(node, r) ==
    /\ r.out = <<>>
    /\ r.node.externalized_slots = node.externalized_slots
    /\ current_slot_index(r.node) = current_slot_index(node)
    /\ get_externalized_values(r.node, current_slot_index(node)) =
         Returned("None", <<>>)

\* C17: when the current slot emits an Externalize whose value list holds a
\* value failing validity_fn, nominate and handle return an error, and the
\* node neither archives nor advances: externalized_slots and
\* current_slot_index() are as before the call, and
\* get_externalized_values for that index is None.  No call returns an
\* Externalize with an invalid value.
C17_InvalidExternalize ==
    \A r \in ReplayCalls :
      /\ r.err <=>
           /\ r.node.current_slot.last_sent_msg
                # nodes[1].current_slot.last_sent_msg
           /\ r.node.current_slot.last_sent_msg # None
           /\ InvalidExternalize(Unwrap(r.node.current_slot.last_sent_msg))
      /\ r.err => NotAdvanced(nodes[1], r)
      /\ \A i \in 1 .. Len(r.out) : ~InvalidExternalize(r.out[i])

\* The slot indices reset_slot_index is asked for: below, among and above
\* the indices archived.
ResetIndices == 0 .. MaxReplaySlot + 1

\* slot is as born: in nomination, nothing heard, voted, accepted or
\* confirmed, no ballot, nothing emitted.
Fresh(slot) ==
    /\ slot.phase = "Nominate"
    /\ slot.M = <<>>
    /\ slot.X = {} /\ slot.Y = {} /\ slot.Z = {}
    /\ slot.B = ZeroBallot /\ slot.P = None /\ slot.PP = None
    /\ slot.CN = 0 /\ slot.HN = 0 /\ slot.PN = 0
    /\ slot.last_sent_msg = None

\* What C18 states of reset_slot_index(i) called on node, with result r.
ResetOnly(node, i, r) ==
    /\ r.out = <<>> /\ ~r.err
    /\ current_slot_index(r.node) = i
    /\ Fresh(r.node.current_slot)
    /\ r.node.current_slot.node_id = node.ID
    /\ r.node.current_slot.quorum_set = node.Q
    /\ r.node.externalized_slots = node.externalized_slots
    /\ r.node.seen_msg_hashes = node.seen_msg_hashes
    /\ r.node.ID = node.ID /\ r.node.Q = node.Q
    /\ process_timeouts(r.node, TRUE, TRUE).out = <<>>

\* C18: reset_slot_index(i) replaces the current slot by a fresh slot at
\* index i (in nomination, no peer messages, nothing emitted and nothing to
\* emit), so that current_slot_index() is i afterwards, for any i, and
\* leaves externalized_slots, seen_msg_hashes, the node ID and the quorum
\* set as they are.
C18_ResetOnly ==
    \A i \in ResetIndices :
      ResetOnly(nodes[1], i, reset_slot_index(nodes[1], i))

\* reset_slot_index has been called on a node with slots archived and
\* hashes stored, for an index that is archived: the current slot is fresh
\* and the history and the hashes are there.
C18_Witness ==
    /\ resets = 1
    /\ Fresh(nodes[1].current_slot)
    /\ nodes[1].externalized_slots # <<>>
    /\ nodes[1].seen_msg_hashes # {}
    /\ get_externalized_values(nodes[1], current_slot_index(nodes[1])).kind
         = "Some"

(***************************************************************************)
(* Liveness on the directed cycle (CycleFairSpec).                         *)
(***************************************************************************)
\* The client has submitted values to a node: the node has voted for them.
Nominated(values) ==
    \E m \in net : HasNominate(m.topic) /\ values \subseteq m.topic.X

\* Every node of the cycle has externalized values for slot 1.
ExternalizedByAll(values) ==
    \A n \in CycleNodes :
        get_externalized_values(nodes[n], 1)
            = Returned("Some", SetToSeq(values))

RECURSIVE Satisfied(_, _)
\* The quorum set qs is satisfied within the set of nodes U: at least
\* threshold of its members are, a node when it is in U and an inner set
\* when it is satisfied within U.
Satisfied(qs, U) ==
    Cardinality({i \in 1 .. Len(qs.members) :
                   IF qs.members[i].kind = "Node"
                   THEN qs.members[i].id \in U
                   ELSE Satisfied(qs.members[i].set, U)}) >= qs.threshold

\* U is a quorum of fig_2_network: it is not empty and satisfies the quorum
\* set of each of its nodes.
Fig2Quorum(U) == U # {} /\ \A n \in U : Satisfied(nodes[n].Q, U)

\* C20: in the network built by fig_2_network the only set of nodes that
\* is a quorum is the set of all four nodes.
C20_UniqueQuorum ==
    \A U \in SUBSET Fig2Nodes : Fig2Quorum(U) => U = Fig2Nodes

(***************************************************************************)
(* Byzantine silence: the two-node network where node 2 never sends.  The  *)
(* client of node 1 submits values and the timers of node 1 expire, at any *)
(* time; node 1 is handed nothing.                                         *)
(***************************************************************************)
SilentProposals == SUBSET (0 .. MaxSilentValue)

SilentNext ==
    \/ \E values \in SilentProposals : Nominate(1, values)
    \/ \E ne \in BOOLEAN, be \in BOOLEAN : ProcessTimeouts(1, ne, be)

SilentSpec == Init /\ [][SilentNext]_vars

\* The calls a client can make on node 1 while the peer is silent.
SilentCalls ==
    {nominate(nodes[1], values) : values \in SilentProposals}
    \cup {process_timeouts(nodes[1], ne, be) : ne \in BOOLEAN, be \in BOOLEAN}

\* C21: while the peer never sends, whatever the sequence of nominate and
\* process_timeouts calls, node 1 emits no Externalize, stays at its slot
\* index, archives nothing, and no call returns an error.
C21_Silence ==
    /\ \A msg \in net : msg.topic.t # "Externalize"
    /\ current_slot_index(nodes[1]) = 1
    /\ nodes[1].externalized_slots = <<>>
    /\ \A r \in SilentCalls :
         /\ ~r.err
         /\ \A i \in 1 .. Len(r.out) : r.out[i].topic.t # "Externalize"

\* Node 1 has nominated, and a timer call has sent its nomination again.
C21_Witness ==
    /\ nodes[1].current_slot.X # {}
    /\ \E r \in SilentCalls : r.out # <<>> /\ SeqToSet(r.out) \subseteq net

(***************************************************************************)
(* The library functions called on their own, one call at a time: the      *)
(* caller builds the argument, the call is recorded with what it returned  *)
(* until the caller has taken the result.                                  *)
(***************************************************************************)
LibInit == Init

\* The (min, max) ranges a caller hands to get_highest_ballot.
LibRanges == (0 .. MaxRange) \X (0 .. MaxRange)

GetHighestBallot ==
    /\ call = NoCall
    /\ \E results \in SUBSET LibRanges :
         call' = Called("get_highest_ballot", results,
                        get_highest_ballot(results))
    /\ UNCHANGED <<nodes, net, last_emitted, resets, handled>>

\* The results a caller hands to filter_to_max_values: lists of
\* <<node set, value set>>.
LibFound == (SUBSET (1 .. 2)) \X (SUBSET (0 .. 1))
LibResults == UNION {[1 .. n -> LibFound] : n \in 0 .. MaxResults}

FilterToMaxValues ==
    /\ call = NoCall
    /\ \E results \in LibResults :
         call' = Called("filter_to_max_values", results,
                        filter_to_max_values(results))
    /\ UNCHANGED <<nodes, net, last_emitted, resets, handled>>

\* The values the peers of the predicate tests stand for: a, b and c.
LibValues == 1 .. 3

\* The Prepare message of the tests for a ballot on value v, and the Nominate
\* message voting for the values S.
PrepareOn(v) == PrepareTopic(Ballot(1, <<v>>), None, None, 0, 0)
NominateOn(S) == NominateTopic(S, {})

\* The five nodes of the quorum tests: node 1 ([2],2,3,4,5), every other one
\* ([1], the four others).
FlatQ(n) ==
    IF n = 1 THEN new_with_node_ids(2, <<2, 3, 4, 5>>)
    ELSE new_with_node_ids(1, SetToSeq((1 .. 5) \ {n}))

\* The message maps of a test: some of the peers have sent a message for
\* slot 1, each on one of the topics.
LibMsgs(Q(_), peers, topics) ==
    UNION {{[p \in D |-> NewMsg(p, Q(p), 1, f[p])] : f \in [D -> topics]} :
             D \in SUBSET peers}

\* The set predicates of the tests, over each non-empty set of candidates.
LibBallotPreds ==
    {BallotSetPredicate({Ballot(1, <<v>>) : v \in S},
                        "votes_or_accepts_prepared") :
       S \in (SUBSET LibValues) \ {{}}}
LibValuePreds ==
    {ValueSetPredicate(S, "votes_or_accepts_nominated") :
       S \in (SUBSET LibValues) \ {{}}}

\* The Commit message of the tests for value v with the accepted range
\* (cn, hn).
CommitOn(v, cn, hn) == CommitTopic(Ballot(1, <<v>>), 0, cn, hn)

\* The accepted-commit ranges of the tests.
LibCommitRanges == {<<10, 20>>, <<15, 25>>, <<30, 40>>}

\* The windows a search for commits of a starts with: that of the test, two
\* narrower ones and one with min above max.
LibWindowPreds ==
    {MinMaxPredicate(w[1], w[2], <<1>>, "accepts_commits") :
       w \in {<<1, INFINITY>>, <<12, 18>>, <<26, 35>>, <<20, 10>>}}

\* What a search is called with: the message map and the predicate.
LibInput(msgs, pred) == [msgs |-> msgs, pred |-> pred]

LibQuorumInputs ==
    {LibInput(m, p) :
       m \in LibMsgs(FlatQ, 2 .. 5, {PrepareOn(v) : v \in LibValues}),
       p \in LibBallotPreds}
    \cup
    {LibInput(m, p) :
       m \in LibMsgs(FlatQ, 2 .. 5, {NominateOn(S) : S \in {{1}, {2}, {1, 2}}}),
       p \in LibValuePreds}
    \cup
    {LibInput(m, p) :
       m \in LibMsgs(FlatQ, 2 .. 5,
                     {CommitOn(v, r[1], r[2]) :
                        v \in {1, 2}, r \in LibCommitRanges}),
       p \in LibWindowPreds}

\* What the caller reads of a search's answer: the node set and
\* pred.result().
Outcome(r) == <<r[1], PredResult(r[2])>>

\* local_node_quorum_set.findQuorum(&local_node_id, &msgs, pred)
FindQuorum ==
    /\ call = NoCall
    /\ \E in \in LibQuorumInputs :
         call' = Called("findQuorum", in,
                        Outcome(findQuorum(FlatQ(1), 1, in.msgs, in.pred)))
    /\ UNCHANGED <<nodes, net, last_emitted, resets, handled>>

\* The seven nodes of the blocking-set tests: node 1
\* ([2],([2],2,3,4),([2],5,6,7)), every other one ([1], the two others of
\* its group).
NestedQ(n) ==
    IF n = 1
    THEN QuorumSet(2, <<InnerSet(new_with_node_ids(2, <<2, 3, 4>>)),
                        InnerSet(new_with_node_ids(2, <<5, 6, 7>>))>>)
    ELSE new_with_node_ids(1,
             SetToSeq((IF n <= 4 THEN 2 .. 4 ELSE 5 .. 7) \ {n}))

LibBlockingInputs ==
    {LibInput(m, p) :
       m \in LibMsgs(NestedQ, 2 .. 7, {PrepareOn(1), PrepareOn(2)}),
       p \in LibBallotPreds}
    \cup
    {LibInput(m, p) :
       m \in LibMsgs(NestedQ, 2 .. 7, {NominateOn({1}), NominateOn({2})}),
       p \in LibValuePreds}

\* local_node_quorum_set.findBlockingSet(&msgs, pred)
FindBlockingSet ==
    /\ call = NoCall
    /\ \E in \in LibBlockingInputs :
         call' = Called("findBlockingSet", in,
                        Outcome(findBlockingSet(NestedQ(1), in.msgs, in.pred)))
    /\ UNCHANGED <<nodes, net, last_emitted, resets, handled>>

\* The lists that hold the elements of list s in another order.
Reordered(s) ==
    {[i \in 1 .. Len(s) |-> s[f[i]]] :
       f \in {g \in [1 .. Len(s) -> 1 .. Len(s)] :
                 \A i, j \in 1 .. Len(s) : g[i] = g[j] => i = j}}

\* The lists that hold each element of the set S once: the orders in which a
\* HashMap or HashSet may hand out its elements.
Listings(S) ==
    {l \in [1 .. Cardinality(S) -> S] : SeqToSet(l) = S}

\* A faulty map that has forgotten all but the first two entries listed.
HashMapOf_first_two(entries) ==
    [k \in {entries[i][1] : i \in 1 .. Min(2, Len(entries))} |->
       (CHOOSE e \in SeqToSet(entries) : e[1] = k)[2]]

\* The HashMap built from entries <<node, message>>: a message is found by
\* its node, wherever it is listed.
HashMapOf(entries) ==
    [k \in {e[1] : e \in SeqToSet(entries)} |->
       (CHOOSE e \in SeqToSet(entries) : e[1] = k)[2]]

\* Both searches of node 1 of the five nodes, over the messages and the
\* candidate ballots as they are listed.
Searches(entries, cands) ==
    <<Outcome(findQuorum(FlatQ(1), 1, HashMapOf(entries),
                  BallotSetPredicate(SeqToSet(cands),
                                     "votes_or_accepts_prepared"))),
      Outcome(findBlockingSet(FlatQ(1), HashMapOf(entries),
                  BallotSetPredicate(SeqToSet(cands),
                                     "votes_or_accepts_prepared")))>>

\* The listed inputs: each of peers 2..5 on a or b, in every order, and every
\* non-empty set of candidates, in every order.
LibListedMsgs ==
    UNION {Listings({<<p, NewMsg(p, FlatQ(p), 1, PrepareOn(f[p]))>> :
                       p \in 2 .. 5}) : f \in [2 .. 5 -> {1, 2}]}
LibListedCands ==
    UNION {Listings({Ballot(1, <<v>>) : v \in S}) :
             S \in (SUBSET LibValues) \ {{}}}

Search ==
    /\ call = NoCall
    /\ \E entries \in LibListedMsgs, cands \in LibListedCands :
         call' = Called("search", [entries |-> entries, cands |-> cands],
                        Searches(entries, cands))
    /\ UNCHANGED <<nodes, net, last_emitted, resets, handled>>

(***************************************************************************)
(* Quorum sets written as strings (test_utils.rs).  A string is a sequence *)
(* of characters.                                                          *)
(***************************************************************************)
DigitChars == <<"0", "1", "2", "3", "4", "5", "6", "7", "8", "9">>

RECURSIVE Digits(_)
\* format!("{}", n) for an unsigned n: its decimal digits, no leading zero.
Digits(n) ==
    IF n < 10 THEN <<DigitChars[n + 1]>>
    ELSE Digits(n \div 10) \o <<DigitChars[(n % 10) + 1]>>

RECURSIVE ParseFrom(_, _)
\* str::parse::<u32> of a string of digits, acc being the value so far.
ParseFrom(acc, str) ==
    IF str = <<>> THEN acc
    ELSE ParseFrom(10 * acc
                     + (CHOOSE d \in 0 .. 9 : DigitChars[d + 1] = Head(str)),
                   Tail(str))
ParseU32(str) == ParseFrom(0, str)

\* test_node_id: the NodeID of node n, known by its responder id
\* "node<n>.test.com:8443"; the key pair is derived from n alone.
test_node_id(n) ==
    <<"n", "o", "d", "e">> \o Digits(n)
    \o <<".", "t", "e", "s", "t", ".", "c", "o", "m", ":", "8", "4", "4", "3">>

\* recover_test_node_index: the number between "node" and the first dot.
recover_test_node_index(node_id) ==
    ParseU32(SubSeq(node_id, 5,
                    (CHOOSE i \in 1 .. Len(node_id) :
                        /\ node_id[i] = "."
                        /\ \A j \in 1 .. i - 1 : node_id[j] # ".") - 1))

RECURSIVE SplitTop(_, _, _, _)
\* The pieces of str between the commas outside every parenthesis: parts
\* holds the pieces closed so far, piece the one being read at nesting
\* depth.
SplitTop(str, depth, piece, parts) ==
    IF str = <<>> THEN Append(parts, piece)
    ELSE IF Head(str) = "," /\ depth = 0
    THEN SplitTop(Tail(str), 0, <<>>, Append(parts, piece))
    ELSE SplitTop(Tail(str),
                  CASE Head(str) = "(" -> depth + 1
                    [] Head(str) = ")" -> depth - 1
                    [] OTHER -> depth,
                  Append(piece, Head(str)), parts)

RECURSIVE test_quorum_set_from_string(_)
\* test_quorum_set_from_string on a string "([t],m1,...,mk)": the threshold
\* is the number between the brackets, each member a node number or a
\* quorum set in parentheses, parsed in turn.
test_quorum_set_from_string(str) ==
    LET parts == SplitTop(SubSeq(str, 2, Len(str) - 1), 0, <<>>, <<>>) IN
    QuorumSet(ParseU32(SubSeq(parts[1], 2, Len(parts[1]) - 1)),
              [i \in 1 .. Len(parts) - 1 |->
                 IF Head(parts[i + 1]) = "("
                 THEN InnerSet(test_quorum_set_from_string(parts[i + 1]))
                 ELSE NodeMember(test_node_id(ParseU32(parts[i + 1])))])

RECURSIVE test_quorum_set_to_string(_)
RECURSIVE MembersToString(_)
\* The members as test_quorum_set_to_string writes them, each after a comma:
\* a node by its number, an inner set by its own string.
MembersToString(members) ==
    IF members = <<>> THEN <<>>
    ELSE LET m == Head(members) IN
         <<",">>
         \o (IF m.kind = "Node" THEN Digits(recover_test_node_index(m.id))
             ELSE test_quorum_set_to_string(m.set))
         \o MembersToString(Tail(members))

\* A faulty stringifier that writes the members last to first.
test_quorum_set_to_string_reversed(quorum_set) ==
    <<"(", "[">> \o Digits(quorum_set.threshold) \o <<"]">>
    \o MembersToString([i \in 1 .. Len(quorum_set.members) |->
           quorum_set.members[Len(quorum_set.members) + 1 - i]])
    \o <<")">>

\* test_quorum_set_to_string
test_quorum_set_to_string(quorum_set) ==
    <<"(", "[">> \o Digits(quorum_set.threshold) \o <<"]">>
    \o MembersToString(quorum_set.members) \o <<")">>

\* The numbers written in the strings handed to the parser.
LibNumerals == {<<"1">>, <<"2">>, <<"1", "0">>}

\* The string of a quorum set with threshold t and the members written in
\* ms.
Written(t, ms) ==
    <<"(", "[">> \o t \o <<"]">>
    \o (IF Len(ms) = 1 THEN <<",">> \o ms[1]
        ELSE <<",">> \o ms[1] \o <<",">> \o ms[2])
    \o <<")">>

\* The strings of the quorum sets of one or two members, each a number or
\* one of the strings of inner.
StringsOver(inner) ==
    {Written(t, ms) :
       t \in LibNumerals,
       ms \in UNION {[1 .. k -> LibNumerals \cup inner] : k \in 1 .. 2}}

\* The string of test_quorum_set_construction.
TestString ==
    <<"(", "[", "3", "]", ",", "1", ",", "2", ",", "3", ",", "4", ",",
      "(", "[", "2", "]", ",", "5", ",", "6", ",",
      "(", "[", "1", "]", ",", "7", ",", "8", ")", ")", ")">>

\* The strings handed to the parser: quorum sets of numbers, quorum sets
\* with such sets among their members, and the string of the test.
LibStrings == StringsOver(StringsOver({})) \cup {TestString}

\* test_quorum_set_to_string(&test_quorum_set_from_string(s)), with the
\* quorum set in between.
RoundTrip ==
    /\ call = NoCall
    /\ \E str \in LibStrings :
         call' = Called("round_trip", str,
                    [set |-> test_quorum_set_from_string(str),
                     string |-> test_quorum_set_to_string(
                                    test_quorum_set_from_string(str))])
    /\ UNCHANGED <<nodes, net, last_emitted, resets, handled>>

\* The predicates a caller tests on their own: each kind of set predicate,
\* with candidates that may be none at all, and with a test function that
\* narrows the candidates or one that does not look at them.
LibRangeMaps ==
    UNION {[D -> {<<1, INFINITY>>, <<12, 18>>}] : D \in SUBSET {<<1>>, <<2>>}}
LibTestPreds ==
    {ValueSetPredicate(S, fn) :
       S \in SUBSET (1 .. 2),
       fn \in {"votes_or_accepts_nominated", "stated_by_sender"}}
    \cup
    {BallotSetPredicate({Ballot(1, <<v>>) : v \in S}, fn) :
       S \in SUBSET (1 .. 2),
       fn \in {"votes_or_accepts_prepared", "stated_by_sender"}}
    \cup
    {BallotRangePredicate(m, fn) :
       m \in LibRangeMaps, fn \in {"accepts_commits", "stated_by_sender"}}

\* The messages of peer 2 the predicates are tested on, one after the other.
LibTestTopics ==
    {NominateOn(S) : S \in {{1}, {2}, {1, 2}}}
    \cup {PrepareOn(v) : v \in 1 .. 2}
    \cup {CommitOn(v, r[1], r[2]) : v \in 1 .. 2, r \in LibCommitRanges}
LibTestMsgs ==
    {<<NewMsg(2, FlatQ(2), 1, t)>> : t \in LibTestTopics}
    \cup {<<NewMsg(2, FlatQ(2), 1, t), NewMsg(2, FlatQ(2), 1, u)>> :
            t \in LibTestTopics, u \in LibTestTopics}

\* test and result of the three set-narrowing predicates, by the
\* predicate's type.
SetPredTest(pred, msg) ==
    CASE pred.kind = "ValueSet" -> ValueSetTest(pred, msg)
      [] pred.kind = "BallotSet" -> BallotSetTest(pred, msg)
      [] pred.kind = "BallotRange" -> BallotRangeTest(pred, msg)
SetPredResult(pred) ==
    CASE pred.kind = "ValueSet" -> pred.values
      [] pred.kind = "BallotSet" -> pred.ballots
      [] pred.kind = "BallotRange" -> pred.ballot_ranges

RECURSIVE TestChain(_, _)
\* pred.test(msg) for each message in turn, every test on the predicate the
\* test before it returned, up to the first None: the list of what the
\* tests returned.
TestChain(pred, msgs) ==
    IF msgs = <<>> THEN <<>>
    ELSE LET r == SetPredTest(pred, Head(msgs)) IN
         IF r = None THEN <<None>>
         ELSE <<r>> \o TestChain(Unwrap(r), Tail(msgs))

\* pred.test(msg), and test again on what it returned.
Test ==
    /\ call = NoCall
    /\ \E pred \in LibTestPreds, msgs \in LibTestMsgs :
         call' = Called("test", [pred |-> pred, msgs |-> msgs],
                        TestChain(pred, msgs))
    /\ UNCHANGED <<nodes, net, last_emitted, resets, handled>>

\* The caller takes the result.
Return ==
    /\ call # NoCall
    /\ call' = NoCall
    /\ UNCHANGED <<nodes, net, last_emitted, resets, handled>>

LibNext ==
    \/ Return
    \/ GetHighestBallot
    \/ FilterToMaxValues
    \/ FindQuorum
    \/ FindBlockingSet
    \/ Search
    \/ RoundTrip
    \/ Test

LibSpec == LibInit /\ [][LibNext]_vars

\* C22 as stated: get_highest_ballot returns the range with the greatest
\* upper bound (max), ties broken by the greater lower bound (min), and None
\* exactly when there are no results.
C22_HighestByMax ==
    call.fn = "get_highest_ballot" =>
        /\ call.ret = None <=> call.arg = {}
        /\ \A r \in call.ret :
             /\ r \in call.arg
             /\ \A q \in call.arg :
                  q[2] < r[2] \/ (q[2] = r[2] /\ q[1] <= r[1])

\* C22, amended: get_highest_ballot returns the range with the greatest
\* lower bound (min), ties broken by the greater upper bound (max), and None
\* exactly when there are no results.
C22_HighestByMin ==
    call.fn = "get_highest_ballot" =>
        /\ call.ret = None <=> call.arg = {}
        /\ \A r \in call.ret :
             /\ r \in call.arg
             /\ \A q \in call.arg :
                  q[1] < r[1] \/ (q[1] = r[1] /\ q[2] <= r[2])

\* A call with the ranges (0, 2) and (1, 1), which the two orders rank
\* differently, has returned (1, 1).
C22_Witness ==
    /\ call.fn = "get_highest_ballot"
    /\ call.arg = {<<0, 2>>, <<1, 1>>}
    /\ call.ret = Some(<<1, 1>>)

\* Result a is at most result b: fewer nodes, or equally many and a value
\* set that is not greater in the order of sets.
AtMost(a, b) ==
    \/ Cardinality(a[1]) < Cardinality(b[1])
    \/ /\ Cardinality(a[1]) = Cardinality(b[1])
       /\ (a[2] = b[2] \/ SeqLess(SetToSeq(a[2]), SetToSeq(b[2])))

Supported(kind, msg) ==
    IF kind = "BallotSet" THEN votes_or_accepts_prepared(msg)
    ELSE IF HasNominate(msg.topic) THEN msg.topic.X \cup msg.topic.Y
    ELSE {}

\* U is a quorum for node 1 of the five nodes, given the quorum sets the
\* messages carry.
FlatQuorum(U, msgs) ==
    /\ Satisfied(FlatQ(1), U)
    /\ \A n \in U \ {1} :
         n \in DOMAIN msgs /\ Satisfied(msgs[n].sender_quorum_set, U)

\* The peers of msgs that support candidate c.
Supporters(kind, msgs, c) ==
    {n \in DOMAIN msgs : c \in Supported(kind, msgs[n])}

\* The map of test_ballot_set_predicate_quorum: nodes 2 and 3 on a, nodes 4
\* and 5 on b.
TwoGroups ==
    [p \in 2 .. 5 |->
       NewMsg(p, FlatQ(p), 1, IF p <= 3 THEN PrepareOn(1) ELSE PrepareOn(2))]

\* C24: findQuorum with a set predicate returns, whenever two peers support
\* one of the candidates, a node set that contains the local node and is a
\* quorum, each of whose peers supports every element of the result; the
\* result is a non-empty subset of the candidates.  Peers 2, 3 on a, peers 4,
\* 5 on b and candidates {a, c} give nodes {1, 2, 3} and result {a}.
C24_QuorumNarrowed ==
    call.fn = "findQuorum"
    /\ call.arg.pred.kind \in {"BallotSet", "ValueSet"} =>
        LET kind == call.arg.pred.kind
            msgs == call.arg.msgs
            cands == PredResult(call.arg.pred)
            U == call.ret[1]
            result == call.ret[2]
        IN
        /\ (\E c \in cands : Cardinality(Supporters(kind, msgs, c)) >= 2)
             => U # {}
        /\ U # {} =>
             /\ 1 \in U
             /\ FlatQuorum(U, msgs)
             /\ \A n \in U \ {1} : result \subseteq Supported(kind, msgs[n])
             /\ result # {}
             /\ result \subseteq cands
        /\ (msgs = TwoGroups /\ cands = {Ballot(1, <<1>>), Ballot(1, <<3>>)})
             => (U = {1, 2, 3} /\ result = {Ballot(1, <<1>>)})

\* The search of test_ballot_set_predicate_quorum has returned nodes 1, 2, 3
\* and ballot a.
C24_Witness ==
    /\ call.fn = "findQuorum"
    /\ call.arg.msgs = TwoGroups
    /\ call.arg.pred =
         BallotSetPredicate({Ballot(1, <<1>>), Ballot(1, <<3>>)},
                            "votes_or_accepts_prepared")
    /\ call.ret = <<{1, 2, 3}, {Ballot(1, <<1>>)}>>

RECURSIVE Blocks(_, _)
\* The set of nodes U is v-blocking for the quorum set qs: without U's nodes
\* fewer than threshold members are left, a node being lost when it is in U
\* and an inner set when U is v-blocking for it.
Blocks(qs, U) ==
    Cardinality({i \in 1 .. Len(qs.members) :
                   IF qs.members[i].kind = "Node"
                   THEN qs.members[i].id \in U
                   ELSE Blocks(qs.members[i].set, U)})
        > Len(qs.members) - qs.threshold

\* The map of test_value_set_predicate_blocking_set: nodes 2 and 3 on a,
\* nodes 5 and 6 on b.
TwoBlocks ==
    [p \in {2, 3, 5, 6} |->
       NewMsg(p, NestedQ(p), 1,
              IF p <= 3 THEN NominateOn({1}) ELSE NominateOn({2}))]

\* C25: findBlockingSet with a set predicate returns, whenever the peers
\* supporting one of the candidates are v-blocking, a set of peers without
\* the local node that is v-blocking for the local quorum set, each of whose
\* members supports every element of the result, a non-empty subset of the
\* candidates.  Peers 2, 3 on a, peers 5, 6 on b and candidates {a, c} give
\* nodes {2, 3} and result {a}.
C25_BlockingNarrowed ==
    call.fn = "findBlockingSet" =>
        LET kind == call.arg.pred.kind
            msgs == call.arg.msgs
            cands == PredResult(call.arg.pred)
            U == call.ret[1]
            result == call.ret[2]
        IN
        /\ (\E c \in cands : Blocks(NestedQ(1), Supporters(kind, msgs, c)))
             => U # {}
        /\ U # {} =>
             /\ 1 \notin U
             /\ Blocks(NestedQ(1), U)
             /\ \A n \in U :
                  n \in DOMAIN msgs /\ result \subseteq Supported(kind, msgs[n])
             /\ result # {}
             /\ result \subseteq cands
        /\ (msgs = TwoBlocks /\ cands = {1, 3}) => (U = {2, 3} /\ result = {1})

\* The search of test_value_set_predicate_blocking_set has returned nodes 2,
\* 3 and value a.
C25_Witness ==
    /\ call.fn = "findBlockingSet"
    /\ call.arg.msgs = TwoBlocks
    /\ call.arg.pred = ValueSetPredicate({1, 3}, "votes_or_accepts_nominated")
    /\ call.ret = <<{2, 3}, {1}>>

\* The map of test_quorum_min_max_predicate: node 2 commits a at (10, 20),
\* node 3 commits a at (15, 25), nodes 4 and 5 commit b at (30, 40).
TwoCommits ==
    [p \in 2 .. 5 |->
       NewMsg(p, FlatQ(p), 1,
              CASE p = 2 -> CommitOn(1, 10, 20)
                [] p = 3 -> CommitOn(1, 15, 25)
                [] OTHER -> CommitOn(2, 30, 40))]

\* C26: a quorum found with a MinMaxPredicate over accepts_commits holds
\* only peers committing the predicate's value list, and the result is the
\* initial window met with the range (CN, HN) of each of them; windows
\* (1, INFINITY), (10, 20) and (15, 25) give (15, 20).  A predicate with min
\* above max accepts no message.
C26_WindowNarrowed ==
    call.fn = "findQuorum" /\ call.arg.pred.kind = "MinMax" =>
        LET pred == call.arg.pred
            msgs == call.arg.msgs
            U == call.ret[1]
            peers == call.ret[1] \ {1}
        IN
        /\ U # {} =>
             /\ FlatQuorum(U, msgs)
             /\ \A n \in peers :
                  msgs[n].topic.t = "Commit" /\ msgs[n].topic.B.X = pred.values
             /\ call.ret[2] =
                  <<SetMax({pred.min} \cup {msgs[n].topic.CN : n \in peers}),
                    SetMin({pred.max} \cup {msgs[n].topic.HN : n \in peers})>>
        /\ pred.min > pred.max =>
             /\ U = {}
             /\ \A n \in DOMAIN msgs : MinMaxTest(pred, msgs[n]) = None
        /\ (msgs = TwoCommits /\ pred.min = 1 /\ pred.max = INFINITY)
             => call.ret = <<{1, 2, 3}, <<15, 20>>>>

\* The search of test_quorum_min_max_predicate has returned nodes 1, 2, 3
\* and the window (15, 20).
C26_Witness ==
    /\ call.fn = "findQuorum"
    /\ call.arg.msgs = TwoCommits
    /\ call.arg.pred = MinMaxPredicate(1, INFINITY, <<1>>, "accepts_commits")
    /\ call.ret = <<{1, 2, 3}, <<15, 20>>>>

MalformedSets ==
    {new_with_node_ids(0, <<2>>),
     new_with_node_ids(2, <<2>>),
     new_with_node_ids(1, <<2, 2>>)}

MalformedInit ==
    /\ \E qs \in MalformedSets :
         nodes = [n \in NodeIds |->
                    NodeNew(n, IF n = 1 THEN qs ELSE TwoNodeQ(n), 1)]
    /\ net = {}
    /\ last_emitted = [n \in NodeIds |-> None]
    /\ resets = 0
    /\ call = NoCall
    /\ handled = [n \in NodeIds |-> {}]

MalformedSpec == MalformedInit /\ [][Next]_vars

RECURSIVE is_valid(_)
\* QuorumSet::is_valid: threshold within bounds, no duplicate direct
\* members, inner sets valid.
is_valid(qs) ==
    /\ qs.threshold >= 1
    /\ qs.threshold <= Len(qs.members)
    /\ \A i, j \in 1 .. Len(qs.members) :
         qs.members[i] = qs.members[j] => i = j
    /\ \A i \in 1 .. Len(qs.members) :
         qs.members[i].kind = "InnerSet" => is_valid(qs.members[i].set)

\* C28: a node constructed on a malformed quorum set takes no part in
\* consensus: it emits no message and externalizes nothing.
C28_MalformedRefused ==
    \A n \in NodeIds :
        ~is_valid(nodes[n].Q) =>
            /\ last_emitted[n] = None
            /\ nodes[n].externalized_slots = <<>>

(***************************************************************************)
(* The two-node exchange with owners that set the public field             *)
(* scp_timebase of their node and reset its slot index.                    *)
(***************************************************************************)
\* node.scp_timebase = Duration::from_millis(ms)
SetTimebase(n, ms) ==
    /\ nodes[n].scp_timebase # ms
    /\ nodes' = [nodes EXCEPT ![n].scp_timebase = ms]
    /\ UNCHANGED <<net, last_emitted, resets, handled, call>>

TimebaseNext ==
    \/ \E n \in NodeIds, ms \in {DEFAULT_TIMEBASE_MS, OwnTimebaseMs} :
         SetTimebase(n, ms)
    \/ \E n \in NodeIds, i \in 1 .. MaxSlot + 1 :
         /\ resets < MaxResets
         /\ ResetSlotIndex(n, i)
    \/ /\ net = {}
       /\ Nominate(2, {1})
    \/ \E n \in NodeIds :
         /\ Pending(n)
         /\ Handle(Other(n), Unwrap(last_emitted[n]))

TimebaseSpec == Init /\ [][TimebaseNext]_vars

\* C29: every slot a node creates after its construction, on an
\* externalization or on reset_slot_index, has the node's scp_timebase as
\* the base of its timers.
C29_TimebasePropagated ==
    [][\A n \in NodeIds :
          nodes'[n].current_slot.slot_index # nodes[n].current_slot.slot_index
              => nodes'[n].current_slot.timebase = nodes'[n].scp_timebase]_vars

\* The quorum set with threshold t over the nodes numbered in ids.
OverNodes(t, ids) ==
    QuorumSet(t, [i \in 1 .. Len(ids) |-> NodeMember(test_node_id(ids[i]))])

\* C30: writing the quorum set parsed from a well-formed string gives the
\* string back, and the parsed set has the threshold, the member order and
\* the nesting of the string, as for ([3],1,2,3,4,([2],5,6,([1],7,8))).
C30_RoundTrip ==
    call.fn = "round_trip" =>
        /\ call.ret.string = call.arg
        /\ call.arg = TestString =>
             call.ret.set =
               QuorumSet(3,
                   OverNodes(3, <<1, 2, 3, 4>>).members
                   \o <<InnerSet(QuorumSet(2,
                           OverNodes(2, <<5, 6>>).members
                           \o <<InnerSet(OverNodes(1, <<7, 8>>))>>))>>)
        /\ call.arg = Written(<<"1", "0">>, <<<<"2">>, <<"1", "0">>>>) =>
             call.ret.set = OverNodes(10, <<2, 10>>)

\* The string of the test has been parsed and written back.
C30_Witness ==
    /\ call.fn = "round_trip"
    /\ call.arg = TestString
    /\ call.ret.string = TestString
    /\ Len(call.ret.set.members) = 5

(***************************************************************************)
(* A node and its twin: nodes[1] is node 1 of the two-node network,        *)
(* nodes[2] the same node run without the cache of seen messages.  Both    *)
(* are handed every call; call holds what each of them returned.           *)
(***************************************************************************)
\* ScpNode::handle without seen_msg_hashes: every message of another sender
\* that is not for a future slot is passed on.
handle_uncached(node, msg) ==
    IF msg.sender_id = node.ID THEN NodeResult(node, <<>>, FALSE)
    ELSE IF msg.slot_index > node.current_slot.slot_index
    THEN NodeResult(node, <<>>, FALSE)
    ELSE IF msg.slot_index = node.current_slot.slot_index
    THEN AfterSlot(node, SlotHandle(node.current_slot, msg))
    ELSE NodeResult(node, <<>>, FALSE)

TwinInit ==
    /\ nodes = [n \in NodeIds |-> NodeNew(1, TwoNodeQ(1), 1)]
    /\ net = {}
    /\ last_emitted = [n \in NodeIds |-> None]
    /\ resets = 0
    /\ call = NoCall
    /\ handled = [n \in NodeIds |-> {}]

\* What a call returned: the messages, and whether it was an error.
Answer(r) == [out |-> r.out, err |-> r.err]

\* One call of fn made on both: rs[1] is the node's result, rs[2] the
\* twin's.  Each is left as its call leaves it, the transport takes the
\* messages the node returned, and the two answers are recorded.
Both(fn, rs) ==
    /\ nodes' = [nodes EXCEPT ![1] = rs[1].node, ![2] = rs[2].node]
    /\ last_emitted' =
         IF rs[1].out = <<>> THEN last_emitted
         ELSE [last_emitted EXCEPT ![1] = Some(rs[1].out[Len(rs[1].out)])]
    /\ net' = net \cup SeqToSet(rs[1].out)
    /\ call' = Called(fn, <<>>, <<Answer(rs[1]), Answer(rs[2])>>)
    /\ UNCHANGED handled

\* The calls go on while the two have answered alike and are in the same
\* state but for the cache: what follows the first difference is not
\* looked at.
TwinRunning ==
    /\ ReplayRunning
    /\ call # NoCall => call.ret[1] = call.ret[2]
    /\ nodes[1].current_slot = nodes[2].current_slot
    /\ nodes[1].externalized_slots = nodes[2].externalized_slots

TwinNext ==
    \/ \E values \in ReplayProposals :
         /\ TwinRunning
         /\ Both("nominate", [n \in NodeIds |-> nominate(nodes[n], values)])
         /\ UNCHANGED resets
    \/ \E msg \in ReplayMsgs :
         /\ TwinRunning
         /\ Both("handle",
                 <<handle(nodes[1], msg), handle_uncached(nodes[2], msg)>>)
         /\ UNCHANGED resets
    \/ \E ne \in BOOLEAN, be \in BOOLEAN :
         /\ TwinRunning
         /\ Varied(current_slot_index(nodes[1]))
         /\ Both("process_timeouts",
                 [n \in NodeIds |-> process_timeouts(nodes[n], ne, be)])
         /\ UNCHANGED resets
    \/ \E slot_index \in ReplayTargets :
         /\ TwinRunning
         /\ resets < MaxResets
         /\ Both("reset_slot_index",
                 [n \in NodeIds |-> reset_slot_index(nodes[n], slot_index)])
         /\ resets' = resets + 1

TwinSpec == TwinInit /\ [][TwinNext]_vars

\* C31: the node and its twin without the cache have returned the same
\* messages to every call so far, and are at the same current slot, slot
\* index and externalized history.
C31_PureCache ==
    /\ call # NoCall => call.ret[1] = call.ret[2]
    /\ nodes[1].current_slot = nodes[2].current_slot
    /\ nodes[1].externalized_slots = nodes[2].externalized_slots

\* The messages handed to node 1 while they were for a future slot that are
\* for its current slot now and have not been handed to it since.
CameEarly ==
    {c.msg : c \in {d \in handled[1] :
                      /\ ~d.in_time
                      /\ d.msg.slot_index = current_slot_index(nodes[1])
                      /\ [d EXCEPT !.in_time = TRUE] \notin handled[1]}}

\* C32: handle returns no message and no error for a message for a future
\* slot and leaves the node, seen_msg_hashes included, as it was; when the
\* node has reached the slot of a message that came early, the hash of the
\* message is not in the cache and handle passes it to the current slot.
C32_FutureNotRemembered ==
    /\ \A msg \in EarlyMsgs(current_slot_index(nodes[1])) :
         handle(nodes[1], msg) = NodeResult(nodes[1], <<>>, FALSE)
    /\ \A msg \in CameEarly :
         /\ ~LruGet(nodes[1].seen_msg_hashes, digest(msg))
         /\ handle(nodes[1], msg) =
              AfterSlot([nodes[1] EXCEPT
                           !.seen_msg_hashes = LruPut(@, digest(msg))],
                        SlotHandle(nodes[1].current_slot, msg))

\* The node has reached the slot of a message that came early, and that
\* message makes the current slot answer.
C32_Witness ==
    \E msg \in CameEarly :
        /\ handle(nodes[1], msg).out # <<>>
        /\ handle(nodes[1], msg).node.current_slot.M[msg.sender_id] = msg

(***************************************************************************)
(* The end of a slot.  Every call node 1 can be given in the state it is   *)
(* in (its client's value sets, the peer's messages in time, early and     *)
(* late, its own message coming back, every combination of expired         *)
(* timers) is looked at for what it returns and what it leaves.            *)
(***************************************************************************)
\* The current slot of the node has sent an Externalize.
Externalized(node) ==
    /\ node.current_slot.last_sent_msg # None
    /\ Unwrap(node.current_slot.last_sent_msg).topic.t = "Externalize"

\* The node has archived the slot that sent msg and has moved on to the
\* next index with a new slot.
Archived(node, msg) ==
    LET h == node.externalized_slots IN
    /\ h # <<>>
    /\ h[Len(h)].slot_index = msg.slot_index
    /\ h[Len(h)].last_sent_msg = Some(msg)
    /\ node.current_slot = NewSlot(node.ID, node.Q, msg.slot_index + 1)

\* What nominate, handle and process_timeouts return on node.
Calls(node) ==
    {nominate(node, values) : values \in ReplayProposals}
    \cup {handle(node, msg) : msg \in ReplayMsgs}
    \cup {process_timeouts(node, ne, be) : ne \in BOOLEAN, be \in BOOLEAN}

TestFnOutput(pred, msg) ==
    CASE pred.kind = "ValueSet" ->
           ValueTestFn(pred.test_fn, msg, pred.values)
      [] pred.kind = "BallotSet" ->
           BallotTestFn(pred.test_fn, msg, pred.ballots)
      [] pred.kind = "BallotRange" ->
           BallotRangeTestFn(pred.test_fn, msg, pred.ballot_ranges)

\* The collection c of a predicate of this kind holds nothing.
IsEmpty(kind, c) == IF kind = "BallotRange" THEN DOMAIN c = {} ELSE c = {}

\* The collection c lies within d: a subset, and for ranges a map over fewer
\* value lists, each range within the one d has.
Within(kind, c, d) ==
    IF kind = "BallotRange"
    THEN /\ DOMAIN c \subseteq DOMAIN d
         /\ \A x \in DOMAIN c : d[x][1] <= c[x][1] /\ c[x][2] <= d[x][2]
    ELSE c \subseteq d

\* The predicate the i-th test of the recorded chain was called on.
TestedOn(i) == IF i = 1 THEN call.arg.pred ELSE Unwrap(call.ret[i - 1])

\* C34: set-narrowing predicates never succeed with an empty state.  For
\* ValueSetPredicate, BallotSetPredicate and BallotRangePredicate, test(msg)
\* returns None exactly when the collection held is empty or test_fn yields
\* an empty collection; otherwise it returns a predicate of the same kind
\* that holds exactly test_fn's output, with the same test_fn.  So after
\* every successful test of a chain result() is not empty, and with a
\* test_fn that intersects it lies within the state before the test.
C34_NeverEmpty ==
    call.fn = "test" =>
      /\ \A i \in 1 .. Len(call.ret) - 1 : call.ret[i] # None
      /\ call.ret[Len(call.ret)] # None => Len(call.ret) = Len(call.arg.msgs)
      /\ \A i \in 1 .. Len(call.ret) :
           LET pred == TestedOn(i)
               out == TestFnOutput(pred, call.arg.msgs[i])
           IN
           /\ call.ret[i] = None <=>
                \/ IsEmpty(pred.kind, SetPredResult(pred))
                \/ IsEmpty(pred.kind, out)
           /\ call.ret[i] # None =>
                LET next == Unwrap(call.ret[i]) IN
                /\ next.kind = pred.kind
                /\ next.test_fn = pred.test_fn
                /\ SetPredResult(next) = out
                /\ ~IsEmpty(next.kind, SetPredResult(next))
                /\ pred.test_fn # "stated_by_sender" =>
                     Within(next.kind, SetPredResult(next),
                            SetPredResult(pred))

\* Two tests in a row succeeded on a map of ranges, and the second left
\* fewer or narrower ranges than the chain started with.
C34_Witness ==
    /\ call.fn = "test"
    /\ call.arg.pred.kind = "BallotRange"
    /\ call.arg.pred.test_fn = "accepts_commits"
    /\ Len(call.ret) = 2
    /\ call.ret[2] # None
    /\ SetPredResult(Unwrap(call.ret[2])) # SetPredResult(call.arg.pred)

====
